---- MODULE Spec2Model ----
(***************************************************************************)
(* Tool-calling conversation loops of rodeo-agent.                         *)
(*                                                                         *)
(*   endpoint = "chat"   handleChat's streaming loop     (src/src/ai.js)   *)
(*   endpoint = "agent"  AgentLoop.runLoop        (src/unnamed/part_000)   *)
(*                                                                         *)
(* A behaviour is one request served by one of the two loops.  The model   *)
(* (LLM) and the tool backends are the environment: what a turn contains   *)
(* and whether a tool succeeds are chosen nondeterministically.            *)
(*                                                                         *)
(* Abstractions.  A message of the history is [role, kind, iter, text]:    *)
(* kind tells a tool-result message from a prompt or a response, iter is   *)
(* the iteration that pushed it, text tells whether the content carries    *)
(* text of the model; the wording of a message is not modelled.            *)
(* fullResponse is the sequence of iterations whose model text it holds;   *)
(* the notes the tool branch appends to it (ai.js 727-737) are not         *)
(* tracked.  A turn that runs to the end of the stream carries text.  The  *)
(* provider gives the calls of a turn distinct ids (their position in the  *)
(* stream).                                                                *)
(***************************************************************************)
EXTENDS Integers, Sequences, FiniteSets, TLC

\* Largest maxIterations value a request carries.
MaxIter == 2
\* Largest number of tool calls the model issues in one turn.
MaxCalls == 2

VARIABLES
    endpoint,            \* which loop serves the request
    pc,                  \* position in the loop
    \* ---- handleChat ----
    maxIterations,       \* request field maxIterations
    enableLoop,          \* request field enableLoop
    currentIteration,    \* let currentIteration
    shouldContinueLoop,  \* let shouldContinueLoop
    currentMessages,     \* let currentMessages
    fullResponse,        \* let fullResponse (per iteration)
    toolCalls,           \* let toolCalls (per iteration)
    executedToolResults, \* const executedToolResults (per iteration)
    execIdx,             \* position of the for..of over validToolCalls
    providerCalls,       \* number of stream*Response calls made
    lastRequest,         \* message list given to the last provider call
    doneSent,            \* number of {type:'done'} frames enqueued
    errorSent,           \* number of {type:'error'} frames enqueued
    closed,              \* controller.close() was called
    saveCalls,           \* saveMessage(..., 'assistant', ...) calls
    savedResponse,       \* content argument of the last such call
    savedToolCalls,      \* toolCalls argument of the last such call
    toolEvents,          \* tool_result / tool_error frames of this iteration
    \* ---- AgentLoop ----
    agentMaxIterations,  \* this.maxIterations
    iteration,           \* this.iteration
    isComplete,          \* this.isComplete
    conversation,        \* this.conversation
    aiToolCalls,         \* aiResponse.toolCalls of the current iteration
    results,             \* const results of executeToolCalls
    callIdx,             \* position of the for..of over toolCalls
    \* ---- reading one provider stream (handleChat's while (true)) ----
    reader,              \* provider, the stream, and the reader's locals
    \* ---- one executeTool call, batch_tool included ----
    run,                 \* the call, its timer, its outcome
    \* ---- truncating one tool result ----
    trunc,               \* the result, and what truncation made of it
    \* ---- admitting one /chat request (handleChat up to the first provider call) ----
    admit,               \* the request, and how far its admission got
    \* ---- the SSE transport of one /chat response ----
    sse,                 \* the client side of the stream and the writes made to it
    \* ---- the tool stages of the earlier streaming handleChat ----
    stage,               \* the turn of the earlier handleChat: its calls and their executions
    \* ---- a registry made by createTools(env, allowedTools) ----
    registry,            \* the allowed subset and the tools executed through the registry
    \* ---- one query handed to the SQL tools ----
    sql,                 \* a query, its approval and what reached the database
    \* ---- a POST /agent request ----
    loop,                \* the requested maxIterations and the AgentLoop made for it
    \* ---- one request to a non-streaming provider handler ----
    handler,             \* a non-streaming handler: its provider, budget, calls made and last reply
    \* ---- a batch_tool call and its timers ----
    batch,               \* one batch_tool call on the clock: its invocations, the time, who is pending
    \* ---- the payloads of one provider stream, per selected provider ----
    forward,             \* a provider stream handled payload by payload for the selected provider
    \* ---- the tool-result message of one turn ----
    labels,              \* the calls of one turn with their ids, the results stored and the labels given
    \* ---- two concurrent requests in conversation setup ----
    conv                 \* two requests in conversation setup and the rows of the store

chatVars == <<maxIterations, enableLoop, currentIteration, shouldContinueLoop,
              currentMessages, fullResponse, toolCalls, executedToolResults,
              execIdx, providerCalls, lastRequest, doneSent, errorSent,
              closed, saveCalls, savedResponse, savedToolCalls, toolEvents>>

agentVars == <<agentMaxIterations, iteration, isComplete, conversation,
               aiToolCalls, results, callIdx>>

auxVars == <<reader, run, trunc, admit, sse, stage, registry, sql, loop, handler, batch, forward, labels, conv>>

\* What a step of one of these components leaves alone.
notReader == <<run, trunc, admit, sse, stage, registry, sql, loop, handler, batch, forward, labels, conv>>
notRun == <<reader, trunc, admit, sse, stage, registry, sql, loop, handler, batch, forward, labels, conv>>
notTrunc == <<reader, run, admit, sse, stage, registry, sql, loop, handler, batch, forward, labels, conv>>
notAdmit == <<reader, run, trunc, sse, stage, registry, sql, loop, handler, batch, forward, labels, conv>>
notSse == <<reader, run, trunc, admit, stage, registry, sql, loop, handler, batch, forward, labels, conv>>
notStage == <<reader, run, trunc, admit, sse, registry, sql, loop, handler, batch, forward, labels, conv>>
notRegistry == <<reader, run, trunc, admit, sse, stage, sql, loop, handler, batch, forward, labels, conv>>
notSql == <<reader, run, trunc, admit, sse, stage, registry, loop, handler, batch, forward, labels, conv>>
notLoop == <<reader, run, trunc, admit, sse, stage, registry, sql, handler, batch, forward, labels, conv>>
notHandler == <<reader, run, trunc, admit, sse, stage, registry, sql, loop, batch, forward, labels, conv>>
notBatch == <<reader, run, trunc, admit, sse, stage, registry, sql, loop, handler, forward, labels, conv>>
notForward == <<reader, run, trunc, admit, sse, stage, registry, sql, loop, handler, batch, labels, conv>>
notLabel == <<reader, run, trunc, admit, sse, stage, registry, sql, loop, handler, batch, forward, conv>>
notConv == <<reader, run, trunc, admit, sse, stage, registry, sql, loop, handler, batch, forward, labels>>

vars == <<endpoint, pc, chatVars, agentVars, auxVars>>

-----------------------------------------------------------------------------
(* Tools                                                                   *)

\* Names a streamed tool call can carry: the empty name (a call the
\* provider never named), registered tools, and a name nothing registers.
ToolNames ==
    {"", "execute_sql", "evaluate_expression", "continue_agent",
     "complete_task", "prepare_sql_for_user", "no_such_tool"}

\* createTools(env): the registry (restricted to the names above).
RegisteredTools ==
    {"execute_sql", "evaluate_expression", "continue_agent",
     "complete_task", "prepare_sql_for_user"}

\* The list tested by hasAnalysisTools.
AnalysisTools ==
    {"execute_sql", "lookup_knowledge_base", "browse_knowledge_base_category",
     "get_knowledge_base_categories", "batch_tool"}

\* Accumulated argument buffers: one that parses, one that does not.
ArgBuffers == {"{}", "{bad"}

\* The buffer is only looked at for a call that has a name; an unnamed call
\* is dropped by the filter whatever it carries.
ArgBuffersOf(name) == IF name = "" THEN {"{}"} ELSE ArgBuffers

StreamedCall ==
    { c \in [name : ToolNames, input : ArgBuffers] : c.input \in ArgBuffersOf(c.name) }

Parses(input) == input = "{}"

\* What tools[name].execute can do: return a result, return/raise an error.
\* continue_agent and complete_task only build a record.
Behaviours(name) ==
    IF name \in {"continue_agent", "complete_task"}
    THEN {"ok"}
    ELSE {"ok", "error"}

\* The turns the model can emit: up to MaxCalls calls, ids by position.
StreamedCalls ==
    UNION { [1..n -> StreamedCall] : n \in 0..MaxCalls }

WithIds(s) ==
    [i \in 1..Len(s) |-> [id |-> i, name |-> s[i].name, input |-> s[i].input]]

NamesOf(calls) == { calls[i].name : i \in 1..Len(calls) }

-----------------------------------------------------------------------------
(* handleChat: pure parts                                                  *)

\* Variant: the while test without the iteration cap.
LoopGuardNoCap(sc, it, max) == sc

\* while (shouldContinueLoop && currentIteration < maxIterations)
LoopGuard(sc, it, max) == sc /\ it < max

\* toolCalls.filter(tc => tc && tc.name)
ValidToolCalls(tcs) == SelectSeq(tcs, LAMBDA tc : tc.name # "")

\* Outcome of one pass through the body of the for..of over validToolCalls:
\*   "thrown"  JSON.parse or executeTool threw; the catch records {error}
\*   "error"   executeTool returned a result carrying an error
\*   "ok"      executeTool returned a result
ToolOutcome(call, behaviour) ==
    IF ~Parses(call.input) THEN "thrown"
    ELSE IF call.name \notin RegisteredTools THEN "thrown"
    ELSE behaviour

\* The frame enqueued for one pass of the for..of: the try block sends
\* tool_result (whatever the result carries), the catch sends tool_error.
ToolEventFor(status) ==
    IF status = "thrown" THEN "tool_error" ELSE "tool_result"

\* saveMessage's last argument: toolCalls.length > 0 ? toolCalls : null.
\* iter records which iteration's toolCalls array it is.
SavedRecord(tcs, it) ==
    IF Len(tcs) > 0 THEN << [iter |-> it, calls |-> tcs] >> ELSE <<>>

\* Variant: only continue_agent keeps the loop going.
ShouldContinueOnRequestOnly(names, it, max) == "continue_agent" \in names

\* Variant: any tool, analysis or not, keeps the loop going below the cap.
ShouldContinueAnyTool(names, it, max) ==
    "continue_agent" \in names \/
    ("complete_task" \notin names /\ "prepare_sql_for_user" \notin names /\ it < max)

\* shouldContinueLoop = hasContinueAgent || (!hasCompleteTask &&
\*     !hasPrepareSQL && hasAnalysisTools && currentIteration < maxIterations)
ShouldContinue(names, it, max) ==
    LET hasContinueAgent == "continue_agent" \in names
        hasCompleteTask  == "complete_task" \in names
        hasPrepareSQL    == "prepare_sql_for_user" \in names
        hasAnalysisTools == names \cap AnalysisTools # {}
    IN  hasContinueAgent \/
        (~hasCompleteTask /\ ~hasPrepareSQL /\ hasAnalysisTools /\ it < max)

\* Variant: the "No tools called, stop looping" branch is missing.
NextShouldContinueNoStop(enable, executed, valid, it, max) ==
    IF enable
    THEN IF Len(executed) > 0
         THEN ShouldContinue(NamesOf(valid), it, max)
         ELSE TRUE
    ELSE FALSE

\* The value shouldContinueLoop has after the "Check if we should continue
\* looping" block.
NextShouldContinue(enable, executed, valid, it, max) ==
    IF enable
    THEN IF Len(executed) > 0
         THEN ShouldContinue(NamesOf(valid), it, max)
         ELSE FALSE
    ELSE FALSE

\* if (!shouldContinueLoop || currentIteration >= maxIterations)
IsLastIteration(sc, it, max) == ~sc \/ it >= max

\* Messages pushed on currentMessages by the block.
Msg(role, kind, it, text) ==
    [role |-> role, kind |-> kind, iter |-> it, text |-> text]

\* Variant: the tool results are pushed before the assistant message.
PushedMessagesResultsFirst(enable, executed, valid, it, response) ==
    IF ~enable THEN <<>>
    ELSE IF Len(executed) > 0
    THEN << Msg("user", "tool_results", it, FALSE),
            Msg("assistant", "response", it, response # <<>>) >>
    ELSE << Msg("assistant", "response", it, response # <<>>) >>

PushedMessages(enable, executed, valid, it, response) ==
    IF ~enable THEN <<>>
    ELSE IF Len(executed) > 0
    THEN << Msg("assistant", "response", it, response # <<>>),
            Msg("user", "tool_results", it, FALSE) >>
    ELSE << Msg("assistant", "response", it, response # <<>>) >>

\* finalMessages = messages || [{ role: 'user', content: prompt }]
InitialMessages ==
    { << Msg("user", "prompt", 0, TRUE) >>,
      << Msg("user", "prompt", 0, TRUE),
         Msg("assistant", "response", 0, TRUE),
         Msg("user", "prompt", 0, TRUE) >> }

-----------------------------------------------------------------------------
(* handleChat: the stream's start() callback                               *)

\* The reader's locals before any stream is read:
\* let buffer = '', toolCalls = [], nothing enqueued.
ReaderStart(provider, stream, frags) ==
    [provider |-> provider, stream |-> stream, frags |-> frags, pos |-> 0,
     buffer |-> <<>>, toolCalls |-> <<>>, events |-> <<>>, doneAt |-> -1,
     toolInput |-> <<>>]

ReaderIdle == reader = ReaderStart("", <<>>, <<>>)

\* No entry of a batch yet / no batch result yet.
NoEntry ==
    [state |-> "none", tool_name |-> "", arguments |-> 0, error |-> "",
     failed |-> FALSE, timeout |-> FALSE, index |-> 0]

NoResult ==
    [success |-> FALSE, batch_results |-> <<>>, total_invocations |-> -1,
     successful_invocations |-> -1, partial_failure |-> FALSE]

\* executeTool(toolName, toolInput) about to be called.
RunStart(tool, backend, invocations) ==
    [tool |-> tool, backend |-> backend, armed |-> 0, outcome |-> "",
     invocations |-> invocations,
     entries |-> [i \in 1..Len(invocations) |-> NoEntry],
     order |-> <<>>, result |-> NoResult]

RunIdle == run = RunStart("", "", <<>>)

\* A string: the first keep characters of the tool's text followed by the
\* markers appended since.
Text(keep, tail) == [keep |-> keep, tail |-> tail]

\* A tool result: the fields the truncation code reads or writes.  quoted
\* is the row count the summary fields (_summary, originalRowCount) quote,
\* contextSummary the total the contextSummary field states; 0 when the
\* result has no such field.
ToolResult(success, type, data, found, content) ==
    [success |-> success, type |-> type, data |-> data, results |-> found,
     content |-> content, truncated |-> FALSE, quoted |-> 0,
     contextSummary |-> 0]

NoToolResult == ToolResult(FALSE, "", <<>>, <<>>, Text(0, <<>>))

TruncStart(path, result) ==
    [path |-> path, step |-> 0, result |-> result,
     once |-> NoToolResult, twice |-> NoToolResult]

TruncIdle == trunc = TruncStart("", NoToolResult)

\* A /chat request as it arrives, nothing answered yet.
AdmitStart(prompt, messages, provider, keys, dbOk) ==
    [prompt |-> prompt, messages |-> messages, provider |-> provider,
     keys |-> keys, dbOk |-> dbOk, status |-> 0, userSaved |-> FALSE,
     providerCalls |-> 0, errorEvents |-> 0, model |-> "", modelPassed |-> ""]

AdmitIdle == admit = AdmitStart(FALSE, "absent", "", {}, TRUE)

\* The response stream just created: nothing written, client connected.
SseStart(max, enable) ==
    [maxIterations |-> max, enableLoop |-> enable, cancelled |-> FALSE,
     iteration |-> 0, pending |-> 0, written |-> 0, afterClose |-> 0]

SseIdle == sse = SseStart(0, FALSE)

\* A turn of the earlier handleChat whose provider stream has been read.
StageStart(enable, calls) ==
    [enableLoop |-> enable, toolCalls |-> calls,
     executions |-> [i \in 1..Len(calls) |-> 0],
     streamed |-> <<>>, toolResults |-> <<>>]

StageIdle == stage = StageStart(FALSE, <<>>)

\* createTools(env, allowedTools) just called: nothing executed yet.
RegistryStart(allowed) == [allowedTools |-> allowed, executed |-> {}]

RegistryIdle == registry = RegistryStart({})

\* No query handed to a tool, nothing sent to the database.
SqlStart(q) ==
    [query |-> q, approved |-> FALSE, answer |-> "none", sent |-> <<>>, via |-> ""]

SqlIdle == sql = SqlStart([stmts |-> <<>>, comment |-> FALSE])

\* handleAgent has made the AgentLoop: no iteration run yet.
LoopStart(requested, max) ==
    [requested |-> requested, maxIterations |-> max, iteration |-> 0,
     isComplete |-> FALSE]

LoopIdle == loop = LoopStart([present |-> FALSE, value |-> 0], 0)

\* A handler entered for a provider: no provider call made yet.
HandlerStart(provider, budget) ==
    [provider |-> provider, maxIterations |-> budget, calls |-> 0, reply |-> "none"]

HandlerIdle == handler = HandlerStart("", 0)

\* batch_tool.execute has started every invocation and armed every timer.
BatchStart(names, waiting) ==
    [names |-> names, now |-> 0, pending |-> waiting, timedOut |-> {},
     state |-> "pending", batchTimer |-> "armed"]

BatchIdle == batch = BatchStart(<<>>, {})

\* The provider stream has been opened for a request: nothing handled yet.
ForwardStart(provider, stream) ==
    [selectedProvider |-> provider, stream |-> stream, handled |-> 0,
     textEvents |-> 0, toolCalls |-> 0]

ForwardIdle == forward = ForwardStart("", <<>>)

\* The calls of a turn have been collected: none executed yet.
LabelStart(calls) == [calls |-> calls, executed |-> <<>>, sections |-> <<>>]

LabelIdle == labels = LabelStart(<<>>)

\* Two requests have arrived; neither has touched the store.
ConvStart(given, rows) ==
    [given |-> given, preexisting |-> rows # {}, rows |-> rows,
     at |-> [r \in 1..2 |-> "c_check"], messages |-> [r \in 1..2 |-> 0]]

ConvIdle == conv = ConvStart([r \in 1..2 |-> FALSE], {})

AuxIdle == ReaderIdle /\ RunIdle /\ TruncIdle /\ AdmitIdle /\ SseIdle /\ StageIdle /\ RegistryIdle /\ SqlIdle /\ LoopIdle /\ HandlerIdle /\ BatchIdle /\ ForwardIdle /\ LabelIdle /\ ConvIdle

IdleButReader == RunIdle /\ TruncIdle /\ AdmitIdle /\ SseIdle /\ StageIdle /\ RegistryIdle /\ SqlIdle /\ LoopIdle /\ HandlerIdle /\ BatchIdle /\ ForwardIdle /\ LabelIdle /\ ConvIdle
IdleButRun == ReaderIdle /\ TruncIdle /\ AdmitIdle /\ SseIdle /\ StageIdle /\ RegistryIdle /\ SqlIdle /\ LoopIdle /\ HandlerIdle /\ BatchIdle /\ ForwardIdle /\ LabelIdle /\ ConvIdle
IdleButTrunc == ReaderIdle /\ RunIdle /\ AdmitIdle /\ SseIdle /\ StageIdle /\ RegistryIdle /\ SqlIdle /\ LoopIdle /\ HandlerIdle /\ BatchIdle /\ ForwardIdle /\ LabelIdle /\ ConvIdle
IdleButAdmit == ReaderIdle /\ RunIdle /\ TruncIdle /\ SseIdle /\ StageIdle /\ RegistryIdle /\ SqlIdle /\ LoopIdle /\ HandlerIdle /\ BatchIdle /\ ForwardIdle /\ LabelIdle /\ ConvIdle
IdleButSse == ReaderIdle /\ RunIdle /\ TruncIdle /\ AdmitIdle /\ StageIdle /\ RegistryIdle /\ SqlIdle /\ LoopIdle /\ HandlerIdle /\ BatchIdle /\ ForwardIdle /\ LabelIdle /\ ConvIdle
IdleButStage == ReaderIdle /\ RunIdle /\ TruncIdle /\ AdmitIdle /\ SseIdle /\ RegistryIdle /\ SqlIdle /\ LoopIdle /\ HandlerIdle /\ BatchIdle /\ ForwardIdle /\ LabelIdle /\ ConvIdle
IdleButRegistry == ReaderIdle /\ RunIdle /\ TruncIdle /\ AdmitIdle /\ SseIdle /\ StageIdle /\ SqlIdle /\ LoopIdle /\ HandlerIdle /\ BatchIdle /\ ForwardIdle /\ LabelIdle /\ ConvIdle
IdleButSql == ReaderIdle /\ RunIdle /\ TruncIdle /\ AdmitIdle /\ SseIdle /\ StageIdle /\ RegistryIdle /\ LoopIdle /\ HandlerIdle /\ BatchIdle /\ ForwardIdle /\ LabelIdle /\ ConvIdle
IdleButLoop == ReaderIdle /\ RunIdle /\ TruncIdle /\ AdmitIdle /\ SseIdle /\ StageIdle /\ RegistryIdle /\ SqlIdle /\ HandlerIdle /\ BatchIdle /\ ForwardIdle /\ LabelIdle /\ ConvIdle
IdleButHandler == ReaderIdle /\ RunIdle /\ TruncIdle /\ AdmitIdle /\ SseIdle /\ StageIdle /\ RegistryIdle /\ SqlIdle /\ LoopIdle /\ BatchIdle /\ ForwardIdle /\ LabelIdle /\ ConvIdle
IdleButBatch == ReaderIdle /\ RunIdle /\ TruncIdle /\ AdmitIdle /\ SseIdle /\ StageIdle /\ RegistryIdle /\ SqlIdle /\ LoopIdle /\ HandlerIdle /\ ForwardIdle /\ LabelIdle /\ ConvIdle
IdleButForward == ReaderIdle /\ RunIdle /\ TruncIdle /\ AdmitIdle /\ SseIdle /\ StageIdle /\ RegistryIdle /\ SqlIdle /\ LoopIdle /\ HandlerIdle /\ BatchIdle /\ LabelIdle /\ ConvIdle
IdleButLabel == ReaderIdle /\ RunIdle /\ TruncIdle /\ AdmitIdle /\ SseIdle /\ StageIdle /\ RegistryIdle /\ SqlIdle /\ LoopIdle /\ HandlerIdle /\ BatchIdle /\ ForwardIdle /\ ConvIdle
IdleButConv == ReaderIdle /\ RunIdle /\ TruncIdle /\ AdmitIdle /\ SseIdle /\ StageIdle /\ RegistryIdle /\ SqlIdle /\ LoopIdle /\ HandlerIdle /\ BatchIdle /\ ForwardIdle /\ LabelIdle

AgentIdle ==
    /\ agentMaxIterations = 0
    /\ iteration = 0
    /\ isComplete = FALSE
    /\ conversation = <<>>
    /\ aiToolCalls = <<>>
    /\ results = <<>>
    /\ callIdx = 0

InitChat ==
    /\ endpoint = "chat"
    /\ pc = "loop"
    /\ maxIterations \in 0..MaxIter
    /\ enableLoop \in BOOLEAN
    /\ currentIteration = 0
    /\ shouldContinueLoop = TRUE
    /\ currentMessages \in InitialMessages
    /\ fullResponse = <<>>
    /\ toolCalls = <<>>
    /\ executedToolResults = <<>>
    /\ execIdx = 0
    /\ providerCalls = 0
    /\ lastRequest = <<>>
    /\ doneSent = 0
    /\ errorSent = 0
    /\ closed = FALSE
    /\ saveCalls = 0
    /\ savedResponse = <<>>
    /\ savedToolCalls = <<>>
    /\ toolEvents = <<>>
    /\ AgentIdle
    /\ AuxIdle

\* The while test succeeds: currentIteration++ and the per-iteration resets.
StartIteration ==
    /\ endpoint = "chat" /\ pc = "loop"
    /\ LoopGuard(shouldContinueLoop, currentIteration, maxIterations)
    /\ currentIteration' = currentIteration + 1
    /\ fullResponse' = <<>>
    /\ toolCalls' = <<>>
    /\ pc' = "call"
    /\ UNCHANGED <<endpoint, maxIterations, enableLoop, shouldContinueLoop,
                   currentMessages, executedToolResults, execIdx, providerCalls,
                   lastRequest, doneSent, errorSent, closed, saveCalls,
                   savedResponse, savedToolCalls, toolEvents, agentVars, auxVars>>

\* The while test fails: start() returns.
LoopExit ==
    /\ endpoint = "chat" /\ pc = "loop"
    /\ ~LoopGuard(shouldContinueLoop, currentIteration, maxIterations)
    /\ pc' = "returned"
    /\ UNCHANGED <<endpoint, chatVars, agentVars, auxVars>>

\* stream*Response(...) resolves with a stream.
CallProviderOk ==
    /\ endpoint = "chat" /\ pc = "call"
    /\ providerCalls' = providerCalls + 1
    /\ lastRequest' = currentMessages
    /\ pc' = "read"
    /\ UNCHANGED <<endpoint, maxIterations, enableLoop, currentIteration,
                   shouldContinueLoop, currentMessages, fullResponse, toolCalls,
                   executedToolResults, execIdx, doneSent, errorSent, closed,
                   saveCalls, savedResponse, savedToolCalls, toolEvents, agentVars, auxVars>>

\* stream*Response(...) rejects: catch (streamError) { enqueue error; break }
CallProviderFail ==
    /\ endpoint = "chat" /\ pc = "call"
    /\ providerCalls' = providerCalls + 1
    /\ lastRequest' = currentMessages
    /\ errorSent' = errorSent + 1
    /\ pc' = "returned"
    /\ UNCHANGED <<endpoint, maxIterations, enableLoop, currentIteration,
                   shouldContinueLoop, currentMessages, fullResponse, toolCalls,
                   executedToolResults, execIdx, doneSent, closed,
                   saveCalls, savedResponse, savedToolCalls, toolEvents, agentVars, auxVars>>

\* The reader loop runs to done: text deltas are appended to fullResponse,
\* tool calls are collected; validToolCalls and executedToolResults follow.
ReadStream ==
    /\ endpoint = "chat" /\ pc = "read"
    /\ \E s \in StreamedCalls :
         /\ fullResponse' = <<currentIteration>>
         /\ toolCalls' = WithIds(s)
         /\ pc' = IF ValidToolCalls(WithIds(s)) = <<>> THEN "decide" ELSE "tools"
    /\ executedToolResults' = <<>>
    /\ execIdx' = 1
    /\ toolEvents' = <<>>
    /\ UNCHANGED <<endpoint, maxIterations, enableLoop, currentIteration,
                   shouldContinueLoop, currentMessages, providerCalls,
                   lastRequest, doneSent, errorSent, closed, saveCalls,
                   savedResponse, savedToolCalls, agentVars, auxVars>>

\* reader.read() rejects: the outer catch enqueues an error and closes.
ReadStreamThrows ==
    /\ endpoint = "chat" /\ pc = "read"
    /\ \E hasText \in BOOLEAN :
         fullResponse' = IF hasText THEN <<currentIteration>> ELSE <<>>
    /\ errorSent' = errorSent + 1
    /\ closed' = TRUE
    /\ pc' = "returned"
    /\ UNCHANGED <<endpoint, maxIterations, enableLoop, currentIteration,
                   shouldContinueLoop, currentMessages, toolCalls,
                   executedToolResults, execIdx, providerCalls, lastRequest,
                   doneSent, saveCalls, savedResponse, savedToolCalls, toolEvents, agentVars, auxVars>>

\* One pass of for (const toolCall of validToolCalls) { try {...} catch {...} }
ExecuteToolCall ==
    /\ endpoint = "chat" /\ pc = "tools"
    /\ LET valid == ValidToolCalls(toolCalls)
           call  == valid[execIdx]
       IN  /\ execIdx <= Len(valid)
           /\ \E b \in Behaviours(call.name) :
                /\ executedToolResults' =
                       Append(executedToolResults,
                              [tool_call_id |-> call.id,
                               status |-> ToolOutcome(call, b)])
                /\ toolEvents' = Append(toolEvents, ToolEventFor(ToolOutcome(call, b)))
           /\ execIdx' = execIdx + 1
           /\ pc' = IF execIdx = Len(valid) THEN "decide" ELSE "tools"
    /\ UNCHANGED <<endpoint, maxIterations, enableLoop, currentIteration,
                   shouldContinueLoop, currentMessages, fullResponse, toolCalls,
                   providerCalls, lastRequest, doneSent, errorSent, closed,
                   saveCalls, savedResponse, savedToolCalls, agentVars, auxVars>>

\* "Check if we should continue looping" and "If this is the last
\* iteration, save to database".
EndIteration ==
    /\ endpoint = "chat" /\ pc = "decide"
    /\ LET valid == ValidToolCalls(toolCalls)
           sc    == NextShouldContinue(enableLoop, executedToolResults, valid,
                                       currentIteration, maxIterations)
       IN  /\ currentMessages' =
                 currentMessages \o PushedMessages(enableLoop, executedToolResults,
                                                   valid, currentIteration,
                                                   fullResponse)
           /\ shouldContinueLoop' = sc
           /\ IF IsLastIteration(sc, currentIteration, maxIterations)
              THEN /\ saveCalls' = saveCalls + 1
                   /\ savedResponse' = fullResponse
                   /\ savedToolCalls' = SavedRecord(toolCalls, currentIteration)
                   /\ doneSent' = doneSent + 1
                   /\ closed' = TRUE
                   /\ pc' = "returned"
              ELSE /\ pc' = "loop"
                   /\ UNCHANGED <<saveCalls, savedResponse, savedToolCalls,
                                  doneSent, closed>>
    /\ UNCHANGED <<endpoint, maxIterations, enableLoop, currentIteration,
                   fullResponse, toolCalls, executedToolResults, execIdx,
                   providerCalls, lastRequest, errorSent, toolEvents, agentVars, auxVars>>

NextChat ==
    \/ StartIteration
    \/ LoopExit
    \/ CallProviderOk
    \/ CallProviderFail
    \/ ReadStream
    \/ ReadStreamThrows
    \/ ExecuteToolCall
    \/ EndIteration

-----------------------------------------------------------------------------
(* AgentLoop                                                               *)

\* createAgentTools(env): createTools plus continue_agent and complete_task.
AgentTools == RegisteredTools

\* aiResponse.toolCalls: the calls callAI returns (each named by its
\* content_block_start event, arguments already parsed, an unparsable buffer
\* having become {}).
AgentTurns == UNION { [1..n -> ToolNames \ {""}] : n \in 0..MaxCalls }

\* executeToolCalls, one pass of the for..of: a registered tool yields one
\* entry (its result, or the caught error); any other name yields none.
AgentOutcome(res, name, behaviour) ==
    IF name \in AgentTools
    THEN Append(res, [toolName |-> name, status |-> behaviour])
    ELSE res

\* The two pushes of processIteration.
AgentPushedMessages(it, res) ==
    << Msg("assistant", "response", it, TRUE),
       Msg("tool", "tool_results", it, FALSE) >>

ChatIdle ==
    /\ maxIterations = 0
    /\ enableLoop = FALSE
    /\ currentIteration = 0
    /\ shouldContinueLoop = FALSE
    /\ currentMessages = <<>>
    /\ fullResponse = <<>>
    /\ toolCalls = <<>>
    /\ executedToolResults = <<>>
    /\ execIdx = 0
    /\ providerCalls = 0
    /\ lastRequest = <<>>
    /\ doneSent = 0
    /\ errorSent = 0
    /\ closed = FALSE
    /\ saveCalls = 0
    /\ savedResponse = <<>>
    /\ savedToolCalls = <<>>
    /\ toolEvents = <<>>

\* new AgentLoop(env, initialMessage, options) with options.maxIterations set.
InitAgent ==
    /\ endpoint = "agent"
    /\ pc = "a_loop"
    /\ agentMaxIterations \in 1..MaxIter
    /\ iteration = 0
    /\ isComplete = FALSE
    /\ conversation = << Msg("user", "prompt", 0, TRUE) >>
    /\ aiToolCalls = <<>>
    /\ results = <<>>
    /\ callIdx = 0
    /\ ChatIdle
    /\ AuxIdle

\* while (!this.isComplete && this.iteration < this.maxIterations)
AgentLoopGuard(complete, it, max) == ~complete /\ it < max

AgentStartIteration ==
    /\ endpoint = "agent" /\ pc = "a_loop"
    /\ AgentLoopGuard(isComplete, iteration, agentMaxIterations)
    /\ iteration' = iteration + 1
    /\ pc' = "a_callAI"
    /\ UNCHANGED <<endpoint, auxVars, chatVars, agentMaxIterations, isComplete,
                   conversation, aiToolCalls, results, callIdx>>

AgentLoopExit ==
    /\ endpoint = "agent" /\ pc = "a_loop"
    /\ ~AgentLoopGuard(isComplete, iteration, agentMaxIterations)
    /\ pc' = "returned"
    /\ UNCHANGED <<endpoint, chatVars, agentVars, auxVars>>

\* callAI resolves (an error inside it resolves with toolCalls: []).
AgentCallAI ==
    /\ endpoint = "agent" /\ pc = "a_callAI"
    /\ \E t \in AgentTurns :
         /\ aiToolCalls' = t
         /\ pc' = IF Len(t) = 0 THEN "a_push" ELSE "a_tools"
    /\ results' = <<>>
    /\ callIdx' = 1
    /\ UNCHANGED <<endpoint, auxVars, chatVars, agentMaxIterations, iteration,
                   isComplete, conversation>>

AgentExecuteToolCall ==
    /\ endpoint = "agent" /\ pc = "a_tools"
    /\ callIdx <= Len(aiToolCalls)
    /\ \E b \in Behaviours(aiToolCalls[callIdx]) :
         results' = AgentOutcome(results, aiToolCalls[callIdx], b)
    /\ callIdx' = callIdx + 1
    /\ pc' = IF callIdx = Len(aiToolCalls) THEN "a_push" ELSE "a_tools"
    /\ UNCHANGED <<endpoint, auxVars, chatVars, agentMaxIterations, iteration,
                   isComplete, conversation, aiToolCalls>>

\* The rest of processIteration, then runLoop's complete_task test.
AgentEndIteration ==
    /\ endpoint = "agent" /\ pc = "a_push"
    /\ conversation' = conversation \o AgentPushedMessages(iteration, results)
    /\ IF \E i \in 1..Len(aiToolCalls) : aiToolCalls[i] = "complete_task"
       THEN /\ isComplete' = TRUE
            /\ pc' = "returned"
       ELSE /\ pc' = "a_loop"
            /\ UNCHANGED isComplete
    /\ UNCHANGED <<endpoint, auxVars, chatVars, agentMaxIterations, iteration,
                   aiToolCalls, results, callIdx>>

NextAgent ==
    \/ AgentStartIteration
    \/ AgentLoopExit
    \/ AgentCallAI
    \/ AgentExecuteToolCall
    \/ AgentEndIteration

-----------------------------------------------------------------------------
-----------------------------------------------------------------------------
(***************************************************************************)
(* Reading one provider stream: handleChat's while (true) over             *)
(* reader.read(), then the parse of each call's accumulated arguments.     *)
(* The stream is a sequence of tokens: the line feed, the "data: " prefix, *)
(* the "[DONE]" marker, and whole JSON payloads.  A chunk is any run of    *)
(* consecutive tokens.                                                     *)
(***************************************************************************)
\* Most fragments a provider cuts one argument text into.
MaxFrags == 3
\* Most tokens delivered by one reader.read().
MaxChunk == 3

NL == [k |-> "nl", v |-> <<>>]
DATA == [k |-> "data", v |-> <<>>]
DONE == [k |-> "done", v |-> <<>>]
TextDelta(c) == [k |-> "text", v |-> <<c>>]
ToolStart(n) == [k |-> "start", v |-> <<n>>]
ArgsDelta(frag) == [k |-> "args", v |-> frag]

IsPayload(t) == t.k \in {"text", "start", "args"}

Providers == {"anthropic", "openai"}

\* chunk.includes('"choices"') || chunk.includes('"delta"'), for one token:
\* every OpenAI-format payload has "choices"; of the Anthropic payloads the
\* content_block_delta ones have a "delta" key, content_block_start has not.
HasDeltaKey(provider, t) ==
    /\ IsPayload(t)
    /\ (provider = "openai" \/ t.k \in {"text", "args"})

\* Argument texts the model sends, as pieces of JSON text: {} and {"a":null}.
ArgTexts == { << "{", "}" >>, << "{\"a\":", "null", "}" >> }

\* The strings '', '{}' and 'null', for which no JSON.parse is made.
EmptyInputs == { <<>>, << "{", "}" >>, << "null" >> }

\* toolInput of one call: {} for the three empty inputs, else
\* JSON.parse(input), which throws on anything that is not a JSON text.
FinalArgs(input) ==
    IF input \in EmptyInputs THEN "{}"
    ELSE IF input = << "{\"a\":", "null", "}" >> THEN "{a:null}"
    ELSE "thrown"

\* The ways of cutting a text into at most MaxFrags non-empty fragments.
CutSets(text) ==
    { S \in SUBSET (1..(Len(text) - 1)) : Cardinality(S) < MaxFrags }

SortedCuts(S) ==
    CHOOSE c \in [1..Cardinality(S) -> S] :
        \A i, j \in 1..Cardinality(S) : i < j => c[i] < c[j]

Fragments(text, S) ==
    LET c == SortedCuts(S)
        n == Cardinality(S)
        from(i) == IF i = 1 THEN 1 ELSE c[i - 1] + 1
        to(i) == IF i = n + 1 THEN Len(text) ELSE c[i]
    IN  [i \in 1..(n + 1) |-> SubSeq(text, from(i), to(i))]

Splits(text) == { Fragments(text, S) : S \in CutSets(text) }

RECURSIVE Flatten(_)
Flatten(ss) == IF ss = <<>> THEN <<>> ELSE Head(ss) \o Flatten(Tail(ss))

Line(payload) == << DATA, payload, NL >>

\* What follows the tool call in the stream.
Tails ==
    { <<>>,
      Line(TextDelta("t")),
      Line(DONE),
      Line(DONE) \o Line(TextDelta("t")) }

StreamOf(frags, tail) ==
    Line(ToolStart("execute_sql"))
        \o Flatten([i \in 1..Len(frags) |-> Line(ArgsDelta(frags[i]))])
        \o tail

\* The update of toolCalls / the text event made for one parsed payload:
\* Anthropic pushes a call on content_block_start and appends partial_json
\* to the last call; the OpenAI format addresses calls by index (here 0) and
\* replaces the buffer by '{}' when a fragment is the string 'null'.
Handle(provider, st, t) ==
    LET tcs == st.toolCalls
        acted == [st EXCEPT !.events = Append(@, t)]
    IN  CASE t.k = "text" -> acted
          [] t.k = "start" /\ provider = "anthropic" ->
                [acted EXCEPT !.toolCalls =
                    Append(tcs, [name |-> t.v[1], input |-> <<>>])]
          [] t.k = "args" /\ provider = "anthropic" ->
                IF Len(tcs) > 0
                THEN [acted EXCEPT !.toolCalls[Len(tcs)].input = @ \o t.v]
                ELSE st
          [] t.k = "start" /\ provider = "openai" ->
                IF Len(tcs) = 0
                THEN [acted EXCEPT !.toolCalls =
                         << [name |-> t.v[1], input |-> <<>>] >>]
                ELSE [acted EXCEPT !.toolCalls[1].name = t.v[1]]
          [] t.k = "args" /\ provider = "openai" ->
                LET made == IF Len(tcs) = 0
                            THEN << [name |-> "", input |-> <<>>] >>
                            ELSE tcs
                IN  [acted EXCEPT !.toolCalls =
                        [made EXCEPT ![1].input =
                            IF t.v = <<>> THEN @
                            ELSE IF t.v = << "null" >> THEN << "{", "}" >>
                            ELSE @ \o t.v]]

\* One pass of for (const line of lines).
ProcessLine(provider, st, line) ==
    LET isData == line # <<>> /\ line[1] = DATA
        dataStr == IF isData THEN Tail(line) ELSE line
    IN  IF isData /\ dataStr = << DONE >>
        THEN [st EXCEPT !.doneAt = IF @ = -1 THEN Len(st.events) ELSE @]
        ELSE IF Len(dataStr) = 1 /\ IsPayload(dataStr[1])
        THEN Handle(provider, st, dataStr[1])
        ELSE st

\* buffer.split('\n') without its last element, and that last element.
RECURSIVE CompleteLines(_, _)
CompleteLines(text, cur) ==
    IF text = <<>> THEN <<>>
    ELSE IF Head(text) = NL THEN << cur >> \o CompleteLines(Tail(text), <<>>)
    ELSE CompleteLines(Tail(text), Append(cur, Head(text)))

RECURSIVE LastPartial(_, _)
LastPartial(text, cur) ==
    IF text = <<>> THEN cur
    ELSE IF Head(text) = NL THEN LastPartial(Tail(text), <<>>)
    ELSE LastPartial(Tail(text), Append(cur, Head(text)))

RECURSIVE ProcessLines(_, _, _)
ProcessLines(provider, st, lines) ==
    IF lines = <<>> THEN st
    ELSE ProcessLines(provider, ProcessLine(provider, st, Head(lines)),
                      Tail(lines))

\* The chunk is taken as one JSON document: it has no line feed, it has a
\* "choices" or "delta" key, and JSON.parse(chunk.trim()) succeeds.
IsDirectJson(provider, chunk) ==
    /\ \A i \in 1..Len(chunk) : chunk[i] # NL
    /\ \E i \in 1..Len(chunk) : HasDeltaKey(provider, chunk[i])
    /\ Len(chunk) = 1 /\ IsPayload(chunk[1])

\* The body of while (true) for one chunk.
ProcessChunk(provider, st, chunk) ==
    IF IsDirectJson(provider, chunk)
    THEN IF provider = "openai" THEN Handle(provider, st, chunk[1]) ELSE st
    ELSE LET text == st.buffer \o chunk
         IN  ProcessLines(provider,
                          [st EXCEPT !.buffer = LastPartial(text, <<>>)],
                          CompleteLines(text, <<>>))

InitReader ==
    /\ endpoint = "reader"
    /\ pc = "r_read"
    /\ \E provider \in Providers, text \in ArgTexts, tail \in Tails :
         \E frags \in Splits(text) :
            reader = ReaderStart(provider, StreamOf(frags, tail), frags)
    /\ IdleButReader
    /\ ChatIdle
    /\ AgentIdle

\* const { done, value } = await reader.read() with done false.
ReadChunk ==
    /\ endpoint = "reader"
    /\ pc = "r_read"
    /\ \E n \in 1..MaxChunk :
         /\ reader.pos + n <= Len(reader.stream)
         /\ reader' =
              [ProcessChunk(reader.provider, reader,
                            SubSeq(reader.stream, reader.pos + 1,
                                   reader.pos + n))
                  EXCEPT !.pos = reader.pos + n]
    /\ UNCHANGED <<endpoint, pc, chatVars, agentVars, notReader>>

\* reader.read() returns done: break.
StreamClosed ==
    /\ endpoint = "reader"
    /\ pc = "r_read"
    /\ reader.pos = Len(reader.stream)
    /\ pc' = "r_closed"
    /\ UNCHANGED <<endpoint, chatVars, agentVars, auxVars>>

\* The parse of each valid call's input at the head of the execution stage.
ParseToolInputs ==
    /\ endpoint = "reader"
    /\ pc = "r_closed"
    /\ pc' = "r_parsed"
    /\ reader' =
         [reader EXCEPT !.toolInput =
             LET valid == ValidToolCalls(reader.toolCalls)
             IN  [i \in 1..Len(valid) |-> FinalArgs(valid[i].input)]]
    /\ UNCHANGED <<endpoint, chatVars, agentVars, notReader>>

NextReader == ReadChunk \/ StreamClosed \/ ParseToolInputs

SpecReader == InitReader /\ [][NextReader]_vars

-----------------------------------------------------------------------------
(***************************************************************************)
(* One tool execution: executeTool -> tools[name].execute, with the        *)
(* timers the tools arm themselves, and batch_tool's concurrent            *)
(* invocations.                                                            *)
(***************************************************************************)
\* Most invocations in one batch_tool call.
MaxInv == 3

\* AI_CONFIG.TOOL_EXECUTION
DEFAULT_TIMEOUT == 30000
SQL_TIMEOUT == 45000
BATCH_TIMEOUT == 60000
KB_TIMEOUT == 15000

\* Tools executeTool is called for here.
DirectTools ==
    {"evaluate_expression", "execute_sql", "prepare_sql_for_user",
     "execute_user_approved_sql", "lookup_knowledge_base", "batch_tool"}

\* Names an invocation of a batch can carry.
BatchNames ==
    {"batch_tool", "no_such_tool", "execute_sql", "prepare_sql_for_user"}

\* Tools whose execute awaits db.executeFinancialQuery (a fetch).
AwaitsBackend(name) ==
    name \in {"execute_sql", "prepare_sql_for_user", "execute_user_approved_sql"}

\* The delay of the withTimeout a tool's own execute wraps its work in;
\* 0 when it wraps nothing.
OwnTimeout(name) ==
    CASE name = "execute_sql" -> SQL_TIMEOUT
      [] name = "lookup_knowledge_base" -> KB_TIMEOUT
      [] OTHER -> 0

\* Variant: a SQL invocation is given a delay longer than the batch's.
InvocationTimeoutBeyondBatch(name) ==
    IF name \in {"execute_sql", "prepare_sql_for_user"} THEN BATCH_TIMEOUT + SQL_TIMEOUT
    ELSE IF name \in {"lookup_knowledge_base", "get_knowledge_base_categories",
                      "browse_knowledge_base_category"} THEN KB_TIMEOUT
    ELSE DEFAULT_TIMEOUT

\* The delay batch_tool picks for one invocation.
InvocationTimeout(name) ==
    IF name \in {"execute_sql", "prepare_sql_for_user"} THEN SQL_TIMEOUT
    ELSE IF name \in {"lookup_knowledge_base", "get_knowledge_base_categories",
                      "browse_knowledge_base_category"} THEN KB_TIMEOUT
    ELSE DEFAULT_TIMEOUT

\* The timer that ends an invocation whose backend is silent: the tool's
\* own when it has one (it is armed first and is not longer), else the
\* one batch_tool arms.
InvocationOutcomes(name) ==
    IF ~AwaitsBackend(name) THEN {"ok", "error"}
    ELSE IF OwnTimeout(name) > 0 /\ OwnTimeout(name) <= InvocationTimeout(name)
    THEN {"ok", "error", "inner_timeout"}
    ELSE {"ok", "error", "timed_out"}

\* Variant: no guard against a batch inside a batch.
ImmediateErrorNoRecursionGuard(name) ==
    IF name \notin DirectTools THEN "not_found" ELSE ""

\* The two tests made before an invocation runs; "" lets it run.
ImmediateError(name) ==
    IF name = "batch_tool" THEN "recursive"
    ELSE IF name \notin DirectTools THEN "not_found"
    ELSE ""

\* The value one invocation's promise resolves to.  A rejection of
\* withTimeout (or of the tool) is caught and flagged success: false; what
\* the tool returns is spread as it is, so its error carries no flag.
BatchEntry(inv, index, outcome) ==
    [state |-> "settled", tool_name |-> inv.name, arguments |-> inv.arguments,
     error |-> IF outcome = "ok" THEN "" ELSE outcome,
     failed |-> outcome \in {"recursive", "not_found", "timed_out"},
     timeout |-> outcome = "timed_out",
     index |-> index]

\* batchResults.sort((a, b) => a.index - b.index)
SortByIndex(rs) ==
    LET n == Len(rs)
        perm == CHOOSE f \in [1..n -> 1..n] :
                   /\ \A i, j \in 1..n : i # j => f[i] # f[j]
                   /\ \A i, j \in 1..n : i < j => rs[f[i]].index <= rs[f[j]].index
    IN  [i \in 1..n |-> rs[perm[i]]]

\* The object batch_tool returns once Promise.all has resolved.
BatchResult(invocations, entries) ==
    LET batchOutput == SortByIndex([i \in 1..Len(invocations) |-> entries[i]])
        successful == Cardinality({ i \in 1..Len(batchOutput) :
                                      ~batchOutput[i].failed })
    IN  [success |-> TRUE,
         batch_results |-> [i \in 1..Len(batchOutput) |->
                               [batchOutput[i] EXCEPT !.index = 0]],
         total_invocations |-> Len(invocations),
         successful_invocations |-> successful,
         partial_failure |-> successful < Len(invocations)]

Invocations ==
    UNION { { [i \in 1..n |-> [name |-> f[i], arguments |-> i]] :
                f \in [1..n -> BatchNames] } : n \in 1..MaxInv }

InitTools ==
    /\ endpoint = "tools"
    /\ pc = "x_start"
    /\ \E tool \in DirectTools, backend \in {"answers", "silent"} :
         \/ /\ tool # "batch_tool"
            /\ run = RunStart(tool, backend, <<>>)
         \/ /\ tool = "batch_tool"
            /\ backend = "answers"
            /\ \E invs \in Invocations : run = RunStart(tool, backend, invs)
    /\ IdleButRun
    /\ ChatIdle
    /\ AgentIdle

\* executeTool calls tools[toolName].execute(toolInput): a tool that awaits
\* nothing returns at once, one that awaits the database is left pending,
\* with the timer its own execute arms, if any.
ExecuteTool ==
    /\ endpoint = "tools"
    /\ pc = "x_start"
    /\ run.tool # "batch_tool"
    /\ IF AwaitsBackend(run.tool)
       THEN /\ pc' = "x_await"
            /\ run' = [run EXCEPT !.armed = OwnTimeout(run.tool)]
       ELSE /\ pc' = "x_done"
            /\ \E o \in {"ok", "error"} : run' = [run EXCEPT !.outcome = o]
    /\ UNCHANGED <<endpoint, chatVars, agentVars, notRun>>

\* The fetch settles: the tool returns its result or an {error}.
BackendAnswers ==
    /\ endpoint = "tools"
    /\ pc = "x_await"
    /\ run.backend = "answers"
    /\ pc' = "x_done"
    /\ \E o \in {"ok", "error"} : run' = [run EXCEPT !.outcome = o]
    /\ UNCHANGED <<endpoint, chatVars, agentVars, notRun>>

\* The tool's own withTimeout rejects before the fetch settles.
TimerFires ==
    /\ endpoint = "tools"
    /\ pc = "x_await"
    /\ run.armed > 0
    /\ pc' = "x_done"
    /\ run' = [run EXCEPT !.outcome = "timeout"]
    /\ UNCHANGED <<endpoint, chatVars, agentVars, notRun>>

\* batch_tool.execute up to its await: every invocation is started; those
\* stopped by one of the two tests resolve first, in list order.
StartBatch ==
    /\ endpoint = "tools"
    /\ pc = "x_start"
    /\ run.tool = "batch_tool"
    /\ pc' = "b_run"
    /\ LET invs == run.invocations
           stopped(i) == ImmediateError(invs[i].name) # ""
       IN  run' = [run EXCEPT
                     !.entries =
                        [i \in 1..Len(invs) |->
                            IF stopped(i)
                            THEN BatchEntry(invs[i], i,
                                            ImmediateError(invs[i].name))
                            ELSE [NoEntry EXCEPT !.state = "pending"]],
                     !.order =
                        SelectSeq([i \in 1..Len(invs) |-> i],
                                  LAMBDA i : stopped(i))]
    /\ UNCHANGED <<endpoint, chatVars, agentVars, notRun>>

\* One running invocation settles, by its tool or by a timer.
InvocationSettles ==
    /\ endpoint = "tools"
    /\ pc = "b_run"
    /\ \E i \in 1..Len(run.invocations) :
         /\ run.entries[i].state = "pending"
         /\ \E o \in InvocationOutcomes(run.invocations[i].name) :
              run' = [run EXCEPT
                        !.entries[i] = BatchEntry(run.invocations[i], i, o),
                        !.order = Append(@, i)]
    /\ UNCHANGED <<endpoint, pc, chatVars, agentVars, notRun>>

\* Promise.all resolves.  Every invocation has settled within
\* SQL_TIMEOUT < BATCH_TIMEOUT, so the batch timer never rejects first.
BatchCompletes ==
    /\ endpoint = "tools"
    /\ pc = "b_run"
    /\ \A i \in 1..Len(run.invocations) : run.entries[i].state = "settled"
    /\ pc' = "x_done"
    /\ run' = [run EXCEPT
                 !.result = BatchResult(run.invocations, run.entries),
                 !.outcome = "ok"]
    /\ UNCHANGED <<endpoint, chatVars, agentVars, notRun>>

NextTools ==
    \/ ExecuteTool
    \/ BackendAnswers
    \/ TimerFires
    \/ StartBatch
    \/ InvocationSettles
    \/ BatchCompletes

SpecTools == InitTools /\ [][NextTools]_vars

-----------------------------------------------------------------------------
(***************************************************************************)
(* Truncation of a tool result before it enters the history:               *)
(* formatToolResult in handleChat, smartTruncate in AgentLoop.             *)
(***************************************************************************)
\* Most rows / entries a tool result carries.
MaxRows == 22

\* formatToolResult
FORMAT_ROW_LIMIT == 10
FORMAT_SAMPLE == 5
FORMAT_TEXT_LIMIT == 4000
FORMAT_TEXT_KEEP == 3800
\* AgentLoop: this.maxTokensPerResult, and the limits of its truncate*.
MAX_TOKENS_PER_RESULT == 1500
QUERY_ROW_LIMIT == 20
QUERY_SAMPLE_MAX == 10
SEARCH_LIMIT == 5
BROWSE_LIMIT == 8

Row(i) == [k |-> "row", v |-> i]
\* The extra element put in the middle of a cut array; it quotes a count.
Note(n) == [k |-> "note", v |-> n]

MarkerLen(m) ==
    CASE m = "..." -> 3
      [] m = "\n...\n[Content truncated for length]" -> 36
      [] OTHER -> 0

RECURSIVE TailLen(_)
TailLen(tail) ==
    IF tail = <<>> THEN 0 ELSE MarkerLen(Head(tail)) + TailLen(Tail(tail))

TextLen(t) == t.keep + TailLen(t.tail)

\* t.substring(0, n), for a cut that falls in the tool's own text or
\* keeps everything.
Substring(t, n) ==
    IF n >= TextLen(t) THEN t ELSE Text(IF n < t.keep THEN n ELSE t.keep, <<>>)

FirstN(s, n) == SubSeq(s, 1, n)
LastN(s, n) == SubSeq(s, Len(s) - n + 1, Len(s))

\* handleChat: what is put in the tool-result message for one result.
FormatToolResult(r) ==
    IF r.type = "default"
    THEN IF Len(r.data) > FORMAT_ROW_LIMIT
         THEN [r EXCEPT !.data = FirstN(r.data, FORMAT_SAMPLE)
                                    \o << Note(Len(r.data)) >>
                                    \o LastN(r.data, FORMAT_SAMPLE),
                        !.quoted = Len(r.data)]
         ELSE r
    ELSE IF r.type \in {"search_results", "category_browse"}
    THEN r
    ELSE IF TextLen(r.content) > FORMAT_TEXT_LIMIT
    THEN [r EXCEPT !.content =
             Text(Substring(r.content, FORMAT_TEXT_KEEP).keep,
                  Substring(r.content, FORMAT_TEXT_KEEP).tail
                     \o << "\n...\n[Content truncated for length]" >>)]
    ELSE r

Min(a, b) == IF a < b THEN a ELSE b

\* AgentLoop's truncateQueryResults.
TruncateQueryResults(r, maxTokens) ==
    IF Len(r.data) <= QUERY_ROW_LIMIT THEN r
    ELSE LET sampleSize == Min(QUERY_SAMPLE_MAX, maxTokens \div 100)
         IN  [r EXCEPT !.data = FirstN(r.data, sampleSize)
                                   \o << Note(Len(r.data) - 2 * sampleSize) >>
                                   \o LastN(r.data, sampleSize),
                       !.truncated = TRUE,
                       !.quoted = Len(r.data),
                       !.contextSummary = Len(r.data)]

TruncateSearchResults(r, maxTokens) ==
    IF Len(r.results) <= SEARCH_LIMIT THEN r
    ELSE [r EXCEPT !.results = FirstN(r.results, SEARCH_LIMIT),
                   !.truncated = TRUE,
                   !.contextSummary = Len(r.results)]

TruncateCategoryBrowse(r, maxTokens) ==
    IF Len(r.results) <= BROWSE_LIMIT THEN r
    ELSE [r EXCEPT !.results = FirstN(r.results, BROWSE_LIMIT),
                   !.truncated = TRUE,
                   !.contextSummary = Len(r.results)]

TruncateDirectLookup(r, maxTokens) ==
    IF TextLen(r.content) <= maxTokens THEN r
    ELSE [r EXCEPT !.content =
             Text(Substring(r.content, maxTokens).keep,
                  Substring(r.content, maxTokens).tail \o << "..." >>),
                   !.truncated = TRUE]

SmartTruncate(r, maxTokens) ==
    IF ~r.success THEN r
    ELSE CASE r.type = "search_results" -> TruncateSearchResults(r, maxTokens)
           [] r.type = "category_browse" -> TruncateCategoryBrowse(r, maxTokens)
           [] r.type = "direct_lookup" -> TruncateDirectLookup(r, maxTokens)
           [] OTHER -> TruncateQueryResults(r, maxTokens)

\* The truncation a path applies before the result enters its history.
Truncate(path, r) ==
    IF path = "chat" THEN FormatToolResult(r)
    ELSE SmartTruncate(r, MAX_TOKENS_PER_RESULT)

Rows(n) == [i \in 1..n |-> Row(i)]

TextLens == {0, 1500, 1501, 4000, 4001, 9000}

ToolResults ==
    { ToolResult(ok, "default", Rows(n), <<>>, Text(0, <<>>)) :
         ok \in BOOLEAN, n \in 0..MaxRows }
    \cup { ToolResult(ok, type, <<>>, Rows(n), Text(0, <<>>)) :
         ok \in BOOLEAN, type \in {"search_results", "category_browse"},
         n \in 0..MaxRows }
    \cup { ToolResult(ok, "direct_lookup", <<>>, <<>>, Text(len, <<>>)) :
         ok \in BOOLEAN, len \in TextLens }

InitTrunc ==
    /\ endpoint = "trunc"
    /\ pc = "t_start"
    /\ \E path \in {"chat", "agent"}, r \in ToolResults :
          trunc = TruncStart(path, r)
    /\ IdleButTrunc
    /\ ChatIdle
    /\ AgentIdle

\* The result is truncated on its way into the history.
TruncateOnce ==
    /\ endpoint = "trunc"
    /\ pc = "t_start"
    /\ pc' = "t_once"
    /\ trunc' = [trunc EXCEPT !.step = 1,
                              !.once = Truncate(trunc.path, trunc.result)]
    /\ UNCHANGED <<endpoint, chatVars, agentVars, notTrunc>>

\* The truncated result is given to the same truncation again.
TruncateAgain ==
    /\ endpoint = "trunc"
    /\ pc = "t_once"
    /\ pc' = "t_twice"
    /\ trunc' = [trunc EXCEPT !.step = 2,
                              !.twice = Truncate(trunc.path, trunc.once)]
    /\ UNCHANGED <<endpoint, chatVars, agentVars, notTrunc>>

NextTrunc == TruncateOnce \/ TruncateAgain

SpecTrunc == InitTrunc /\ [][NextTrunc]_vars

-----------------------------------------------------------------------------
(***************************************************************************)
(* Admission of a /chat request: handleChat from request.json() to the     *)
(* first provider call of the stream.                                      *)
(***************************************************************************)
\* The provider field: absent, or a name.
ProviderNames ==
    {"", "default", "anthropic", "claude", "groq", "openai", "gemini",
     "mistral"}

ApiKeys == {"ANTHROPIC_API_KEY", "GROQ_API_KEY", "OPENAI_API_KEY"}

\* The messages field: absent, [] or a non-empty array.
MessagesFields == {"absent", "empty", "some"}

\* messages || (prompt ? [{role: 'user', content: prompt}] : null)
FinalMessages(prompt, messages) ==
    IF messages # "absent" THEN messages
    ELSE IF prompt THEN "some" ELSE "absent"

\* provider || 'groq', and 'default' replaced by 'groq'.
SelectedProvider(provider) ==
    IF provider \in {"", "default"} THEN "groq" ELSE provider

\* The env key tested for the selected provider; "" when none is tested.
RequiredKey(selected) ==
    CASE selected \in {"anthropic", "claude", "gemini"} -> "ANTHROPIC_API_KEY"
      [] selected = "groq" -> "GROQ_API_KEY"
      [] selected = "openai" -> "OPENAI_API_KEY"
      [] OTHER -> ""

\* The model field: absent (""), or a name.
ModelNames == {"", "claude-sonnet-4-0"}

\* model || 'openai/gpt-oss-120b', and the same name when the provider is
\* 'default'.
SelectedModel(provider, model) ==
    IF provider # "default" /\ model # "" THEN model ELSE "openai/gpt-oss-120b"

\* AI_CONFIG.DEFAULT_MODELS[provider]; "" for a key the table has not.
DEFAULT_MODELS(provider) ==
    CASE provider \in {"anthropic", "claude", "gemini", "grader"} -> "claude-3-5-haiku-latest"
      [] provider \in {"groq", "groq-120b"} -> "openai/gpt-oss-120b"
      [] provider = "groq-20b" -> "openai/gpt-oss-20b"
      [] provider = "openai" -> "gpt-4-turbo-preview"
      [] OTHER -> ""

getModelForProvider(provider, modelOverride) ==
    IF modelOverride # "" THEN modelOverride
    ELSE IF DEFAULT_MODELS(provider) # "" THEN DEFAULT_MODELS(provider)
    ELSE DEFAULT_MODELS("anthropic")

\* Variant: the switch without the API_KEY_MISSING case.
GetHttpStatusNoKeyCase(code) ==
    CASE code \in {"MISSING_INPUT", "VALIDATION_ERROR"} -> 400
      [] code = "TOOL_NOT_FOUND" -> 404
      [] OTHER -> 500

\* AIError.getHttpStatus
GetHttpStatus(code) ==
    CASE code \in {"MISSING_INPUT", "VALIDATION_ERROR"} -> 400
      [] code = "API_KEY_MISSING" -> 401
      [] code = "TOOL_NOT_FOUND" -> 404
      [] OTHER -> 500

InitAdmit ==
    /\ endpoint = "admit"
    /\ pc = "q_start"
    /\ \E prompt \in BOOLEAN, messages \in MessagesFields,
          provider \in ProviderNames, keys \in SUBSET ApiKeys,
          dbOk \in BOOLEAN, model \in ModelNames :
          admit = [AdmitStart(prompt, messages, provider, keys, dbOk)
                      EXCEPT !.model = model]
    /\ IdleButAdmit
    /\ ChatIdle
    /\ AgentIdle

\* The test of finalMessages; the AIError thrown is answered by toResponse.
ValidateInput ==
    /\ endpoint = "admit"
    /\ pc = "q_start"
    /\ IF FinalMessages(admit.prompt, admit.messages) \in {"absent", "empty"}
       THEN /\ pc' = "q_done"
            /\ admit' = [admit EXCEPT !.status = GetHttpStatus("MISSING_INPUT")]
       ELSE /\ pc' = "q_persist"
            /\ admit' = admit
    /\ UNCHANGED <<endpoint, chatVars, agentVars, notAdmit>>

\* createOrGetConversation and saveMessage(…, 'user', …).  A rejection of
\* the database is not an AIError: it is answered as API_ERROR.
PersistUserMessage ==
    /\ endpoint = "admit"
    /\ pc = "q_persist"
    /\ IF admit.dbOk
       THEN /\ pc' = "q_key"
            /\ admit' = [admit EXCEPT !.userSaved = TRUE]
       ELSE /\ pc' = "q_done"
            /\ admit' = [admit EXCEPT !.status = GetHttpStatus("API_ERROR")]
    /\ UNCHANGED <<endpoint, chatVars, agentVars, notAdmit>>

\* The key test of the selected provider, then return new Response(stream).
CheckApiKey ==
    /\ endpoint = "admit"
    /\ pc = "q_key"
    /\ LET key == RequiredKey(SelectedProvider(admit.provider))
       IN  IF key # "" /\ key \notin admit.keys
           THEN /\ pc' = "q_done"
                /\ admit' = [admit EXCEPT
                                !.status = GetHttpStatus("API_KEY_MISSING")]
           ELSE /\ pc' = "q_stream"
                /\ admit' = [admit EXCEPT !.status = 200]
    /\ UNCHANGED <<endpoint, chatVars, agentVars, notAdmit>>

\* The first pass of the stream's loop: the provider is called, or the
\* name is not supported and an error event is sent.
FirstProviderCall ==
    /\ endpoint = "admit"
    /\ pc = "q_stream"
    /\ pc' = "q_done"
    /\ IF RequiredKey(SelectedProvider(admit.provider)) # ""
       THEN admit' = [admit EXCEPT
                         !.providerCalls = 1,
                         !.modelPassed =
                            getModelForProvider(SelectedProvider(admit.provider),
                                SelectedModel(admit.provider, admit.model))]
       ELSE admit' = [admit EXCEPT !.errorEvents = 1]
    /\ UNCHANGED <<endpoint, chatVars, agentVars, notAdmit>>

NextAdmit ==
    ValidateInput \/ PersistUserMessage \/ CheckApiKey \/ FirstProviderCall

SpecAdmit == InitAdmit /\ [][NextAdmit]_vars

-----------------------------------------------------------------------------
(***************************************************************************)
(* The writes handleChat makes to the response stream, and the client      *)
(* going away.  start(controller) has no cancel() and never asks the       *)
(* controller for its state; an enqueue on a stream the client has         *)
(* cancelled throws.                                                       *)
(***************************************************************************)
\* controller.enqueue(frame) at a place whose exception lands at onThrow:
\* the write is counted, as delivered or as made after the close.
Enqueue(s, onOk, onThrow) ==
    IF s.cancelled
    THEN [next |-> onThrow, sse |-> [s EXCEPT !.afterClose = @ + 1]]
    ELSE [next |-> onOk, sse |-> [s EXCEPT !.written = @ + 1]]

InitSse ==
    /\ endpoint = "sse"
    /\ pc = "s_init"
    /\ \E max \in 1..MaxIter, enable \in BOOLEAN : sse = SseStart(max, enable)
    /\ IdleButSse
    /\ ChatIdle
    /\ AgentIdle

\* The client disconnects: the runtime cancels the stream.
ClientDisconnects ==
    /\ endpoint = "sse"
    /\ pc \notin {"s_closed", "s_escaped"}
    /\ ~sse.cancelled
    /\ sse' = [sse EXCEPT !.cancelled = TRUE]
    /\ UNCHANGED <<endpoint, pc, chatVars, agentVars, notSse>>

\* The conversation_id frame, first thing in start().
SendConversationId ==
    /\ endpoint = "sse"
    /\ pc = "s_init"
    /\ LET e == Enqueue(sse, "s_loop", "s_catch")
       IN  pc' = e.next /\ sse' = e.sse
    /\ UNCHANGED <<endpoint, chatVars, agentVars, notSse>>

\* currentIteration++ and the iteration frame of a later iteration.
SendIterationMarker ==
    /\ endpoint = "sse"
    /\ pc = "s_loop"
    /\ LET s == [sse EXCEPT !.iteration = @ + 1]
       IN  IF s.enableLoop /\ s.iteration > 1
           THEN LET e == Enqueue(s, "s_read", "s_catch")
                IN  pc' = e.next /\ sse' = e.sse
           ELSE pc' = "s_read" /\ sse' = s
    /\ UNCHANGED <<endpoint, chatVars, agentVars, notSse>>

\* The provider stream is read: a text frame, and the turn's tool calls.
SendText ==
    /\ endpoint = "sse"
    /\ pc = "s_read"
    /\ \E calls \in 0..MaxCalls :
         LET e == Enqueue([sse EXCEPT !.pending = calls], "s_tools", "s_catch")
         IN  pc' = e.next /\ sse' = e.sse
    /\ UNCHANGED <<endpoint, chatVars, agentVars, notSse>>

\* One tool call is executed and its tool_result frame sent, inside the
\* per-call try.
SendToolResult ==
    /\ endpoint = "sse"
    /\ pc = "s_tools"
    /\ sse.pending > 0
    /\ LET e == Enqueue([sse EXCEPT !.pending = @ - 1], "s_tools",
                        "s_toolcatch")
       IN  pc' = e.next /\ sse' = e.sse
    /\ UNCHANGED <<endpoint, chatVars, agentVars, notSse>>

\* The per-call catch sends a tool_error frame; what it throws leaves the
\* for..of.
SendToolError ==
    /\ endpoint = "sse"
    /\ pc = "s_toolcatch"
    /\ LET e == Enqueue(sse, "s_tools", "s_catch")
       IN  pc' = e.next /\ sse' = e.sse
    /\ UNCHANGED <<endpoint, chatVars, agentVars, notSse>>

\* The end of an iteration: the done frame and close() on the last one,
\* else the next iteration.
SendDone ==
    /\ endpoint = "sse"
    /\ pc = "s_tools"
    /\ sse.pending = 0
    /\ \E sc \in BOOLEAN :
         IF IsLastIteration(sc /\ sse.enableLoop, sse.iteration,
                            sse.maxIterations)
         THEN LET e == Enqueue(sse, "s_closed", "s_catch")
              IN  pc' = e.next /\ sse' = e.sse
         ELSE pc' = "s_loop" /\ sse' = sse
    /\ UNCHANGED <<endpoint, chatVars, agentVars, notSse>>

\* The outer catch sends an error frame; what it throws escapes start().
SendStreamingError ==
    /\ endpoint = "sse"
    /\ pc = "s_catch"
    /\ LET e == Enqueue(sse, "s_closed", "s_escaped")
       IN  pc' = e.next /\ sse' = e.sse
    /\ UNCHANGED <<endpoint, chatVars, agentVars, notSse>>

NextSse ==
    \/ ClientDisconnects
    \/ SendConversationId
    \/ SendIterationMarker
    \/ SendText
    \/ SendToolResult
    \/ SendToolError
    \/ SendDone
    \/ SendStreamingError

SpecSse == InitSse /\ [][NextSse]_vars

-----------------------------------------------------------------------------
(***************************************************************************)
(* The earlier streaming handleChat: the stage that executes the turn's    *)
(* calls and streams their results, and the stage that builds the tool     *)
(* results for the next iteration.                                         *)
(***************************************************************************)
StageNames == {"execute_sql", "evaluate_expression", "no_such_tool"}

StageTurns == UNION { [1..n -> StageNames] : n \in 0..MaxCalls }

\* executeTool of that file: throws for a name outside the registry.
StageRuns(name) == name \in RegisteredTools

\* One execution of a call: its number among the call's executions, and
\* what it gave.
Execution(n, outcome) == [n |-> n, outcome |-> outcome]

InitStage ==
    /\ endpoint = "stage"
    /\ pc = "g_stream"
    /\ \E enable \in BOOLEAN, calls \in StageTurns :
          stage = StageStart(enable, calls)
    /\ IdleButStage
    /\ ChatIdle
    /\ AgentIdle

\* First for..of: one call is executed and its result sent to the client.
StreamToolResult ==
    /\ endpoint = "stage"
    /\ pc = "g_stream"
    /\ Len(stage.streamed) < Len(stage.toolCalls)
    /\ LET i == Len(stage.streamed) + 1
           name == stage.toolCalls[i]
       IN  IF StageRuns(name)
           THEN \E o \in Behaviours(name) :
                  stage' = [stage EXCEPT
                      !.executions[i] = @ + 1,
                      !.streamed = Append(@, Execution(stage.executions[i] + 1, o))]
           ELSE stage' = [stage EXCEPT
                      !.streamed = Append(@, Execution(0, "thrown"))]
    /\ UNCHANGED <<endpoint, pc, chatVars, agentVars, notStage>>

\* The first for..of is over; if (enableLoop) opens the second stage.
StreamStageDone ==
    /\ endpoint = "stage"
    /\ pc = "g_stream"
    /\ Len(stage.streamed) = Len(stage.toolCalls)
    /\ pc' = IF stage.enableLoop THEN "g_history" ELSE "g_done"
    /\ UNCHANGED <<endpoint, chatVars, agentVars, auxVars>>

\* Second for..of: the call is given to executeTool again and that result
\* is pushed on toolResults.
CollectToolResult ==
    /\ endpoint = "stage"
    /\ pc = "g_history"
    /\ Len(stage.toolResults) < Len(stage.toolCalls)
    /\ LET i == Len(stage.toolResults) + 1
           name == stage.toolCalls[i]
       IN  IF StageRuns(name)
           THEN \E o \in Behaviours(name) :
                  stage' = [stage EXCEPT
                      !.executions[i] = @ + 1,
                      !.toolResults = Append(@, Execution(stage.executions[i] + 1, o))]
           ELSE stage' = [stage EXCEPT
                      !.toolResults = Append(@, Execution(0, "thrown"))]
    /\ UNCHANGED <<endpoint, pc, chatVars, agentVars, notStage>>

\* toolResults is complete and goes into currentMessages.
HistoryStageDone ==
    /\ endpoint = "stage"
    /\ pc = "g_history"
    /\ Len(stage.toolResults) = Len(stage.toolCalls)
    /\ pc' = "g_done"
    /\ UNCHANGED <<endpoint, chatVars, agentVars, auxVars>>

NextStage ==
    \/ StreamToolResult
    \/ StreamStageDone
    \/ CollectToolResult
    \/ HistoryStageDone

SpecStage == InitStage /\ [][NextStage]_vars

-----------------------------------------------------------------------------
(***************************************************************************)
(* createTools(env, allowedTools): the filtered registry and what can be   *)
(* executed through it.                                                    *)
(***************************************************************************)
\* The registry returned: the allowed names that allTools has.
FilteredTools(allowed) == { name \in allowed : name \in DirectTools }

\* The object batch_tool's execute looks an invocation's name up in: the
\* allTools of its closure, whatever filter was applied afterwards.
BatchLookup(allowed) == DirectTools

InitRegistry ==
    /\ endpoint = "registry"
    /\ pc = "k_ready"
    /\ \E allowed \in SUBSET DirectTools : registry = RegistryStart(allowed)
    /\ IdleButRegistry
    /\ ChatIdle
    /\ AgentIdle

\* executeTool(name, input, tools): a tool of the registry is executed.
ExecuteRegistered ==
    /\ endpoint = "registry"
    /\ pc = "k_ready"
    /\ \E name \in FilteredTools(registry.allowedTools) \ {"batch_tool"} :
          registry' = [registry EXCEPT !.executed = @ \cup {name}]
    /\ UNCHANGED <<endpoint, pc, chatVars, agentVars, notRegistry>>

\* executeTool('batch_tool', {invocations}): every invocation that passes
\* the two tests is executed.
ExecuteBatch ==
    /\ endpoint = "registry"
    /\ pc = "k_ready"
    /\ "batch_tool" \in FilteredTools(registry.allowedTools)
    /\ \E invs \in Invocations :
          registry' = [registry EXCEPT !.executed =
              @ \cup { invs[i].name : i \in
                         { j \in 1..Len(invs) :
                             /\ ImmediateError(invs[j].name) = ""
                             /\ invs[j].name \in BatchLookup(registry.allowedTools) } }]
    /\ UNCHANGED <<endpoint, pc, chatVars, agentVars, notRegistry>>

NextRegistry == ExecuteRegistered \/ ExecuteBatch

SpecRegistry == InitRegistry /\ [][NextRegistry]_vars

-----------------------------------------------------------------------------
(***************************************************************************)
(* The SQL tools: execute_sql with validateSqlQuery, prepare_sql_for_user  *)
(* and execute_user_approved_sql.  A query is its ';'-separated statements,*)
(* each with its leading keyword and the name after its first "from".      *)
(***************************************************************************)
MaxStmts == 2

Verbs == {"select", "update", "insert", "delete", "drop", "copy"}

\* commonTables, and one name that is not among them.
CommonTables == {"frpindx"}
TableNames == CommonTables \cup {"users"}

Statements == [verb : Verbs, from : TableNames \cup {""}]

Queries ==
    [stmts : UNION { [1..n -> Statements] : n \in 0..MaxStmts }, comment : BOOLEAN]

VerbsOf(q) == [i \in 1..Len(q.stmts) |-> q.stmts[i].verb]

\* /;\s*(drop|delete|update|insert|create|alter|truncate)/
MultipleStatements(q) ==
    \E i \in 2..Len(q.stmts) :
        q.stmts[i].verb \in {"drop", "delete", "update", "insert", "create", "alter", "truncate"}

\* The (\w+) of the first /from\s+(\w+)/ in the query, "" without a match.
RECURSIVE FirstFrom(_, _)
FirstFrom(q, i) ==
    IF i > Len(q.stmts) THEN ""
    ELSE IF q.stmts[i].from # "" THEN q.stmts[i].from
    ELSE FirstFrom(q, i + 1)

DataModifying == {"update", "insert", "delete"}

\* "valid", "requiresApproval" (valid false, requiresApproval true) or
\* "error" (valid false).
validateSqlQuery(q) ==
    IF Len(q.stmts) = 0 THEN "error"
    ELSE IF MultipleStatements(q) \/ q.comment THEN "error"
    ELSE IF q.stmts[1].verb \in DataModifying THEN "requiresApproval"
    ELSE IF q.stmts[1].verb # "select" THEN "error"
    ELSE IF FirstFrom(q, 1) # "" /\ FirstFrom(q, 1) \notin CommonTables THEN "error"
    ELSE "valid"

InitSql ==
    /\ endpoint = "sql"
    /\ pc = "d_ready"
    /\ \E q \in Queries : sql = SqlStart(q)
    /\ IdleButSql
    /\ ChatIdle
    /\ AgentIdle

\* The model calls execute_sql: executeSqlQuery.  A valid query is sent to
\* the database as written, whole.
executeSqlQuery ==
    /\ endpoint = "sql"
    /\ pc = "d_ready"
    /\ LET v == validateSqlQuery(sql.query)
       IN sql' = IF v = "valid"
                 THEN [sql EXCEPT !.answer = "rows", !.sent = VerbsOf(sql.query),
                                  !.via = "execute_sql"]
                 ELSE [sql EXCEPT !.answer = v]
    /\ pc' = "d_done"
    /\ UNCHANGED <<endpoint, chatVars, agentVars, notSql>>

\* The model calls prepare_sql_for_user: the query comes back as an approval
\* button; only SELECTs that verify the table are sent, when the table name
\* is recognised.
prepareSqlForUser ==
    /\ endpoint = "sql"
    /\ pc = "d_ready"
    /\ IF Len(sql.query.stmts) > 0 /\ sql.query.stmts[1].verb \in DataModifying
       THEN /\ \E tableMatch \in BOOLEAN :
                 sql' = [sql EXCEPT !.answer = "requiresApproval",
                                    !.sent = IF tableMatch THEN <<"select">> ELSE <<>>,
                                    !.via = IF tableMatch THEN "prepare_sql_for_user" ELSE ""]
            /\ pc' = "d_pending"
       ELSE /\ sql' = [sql EXCEPT !.answer = "error"]
            /\ pc' = "d_done"
    /\ UNCHANGED <<endpoint, chatVars, agentVars, notSql>>

\* The user clicks the approval button.
UserApproves ==
    /\ endpoint = "sql"
    /\ pc = "d_pending"
    /\ sql' = [sql EXCEPT !.approved = TRUE]
    /\ pc' = "d_approved"
    /\ UNCHANGED <<endpoint, chatVars, agentVars, notSql>>

\* executeUserApprovedSql after the click: the query is sent as written.
ExecuteApproved ==
    /\ endpoint = "sql"
    /\ pc = "d_approved"
    /\ sql' = [sql EXCEPT !.answer = "executed", !.sent = VerbsOf(sql.query),
                          !.via = "execute_user_approved_sql"]
    /\ pc' = "d_done"
    /\ UNCHANGED <<endpoint, chatVars, agentVars, notSql>>

\* The model calls execute_user_approved_sql, a tool of the registry the chat
\* loop executes model calls against: executeUserApprovedSql sends the query
\* as written.
ModelExecutesApproved ==
    /\ endpoint = "sql"
    /\ pc \in {"d_ready", "d_pending"}
    /\ sql' = [sql EXCEPT !.answer = "executed", !.sent = VerbsOf(sql.query),
                          !.via = "execute_user_approved_sql"]
    /\ pc' = "d_done"
    /\ UNCHANGED <<endpoint, chatVars, agentVars, notSql>>

NextSql ==
    \/ executeSqlQuery
    \/ prepareSqlForUser
    \/ UserApproves
    \/ ExecuteApproved
    \/ ModelExecutesApproved

SpecSql == InitSql /\ [][NextSql]_vars

-----------------------------------------------------------------------------
(***************************************************************************)
(* POST /agent: the client's maxIterations, what handleAgent passes to     *)
(* AgentLoop, and the iterations runLoop makes.                            *)
(***************************************************************************)
MaxRequested == 12

\* maxIterations of the request body: an integer, or ABSENT when the body
\* has no such field.
ABSENT == [present |-> FALSE, value |-> 0]
RequestedValues ==
    { [present |-> TRUE, value |-> v] : v \in -MaxRequested .. MaxRequested }
        \cup {ABSENT}

REQUEST_DEFAULT == 10
AGENT_CAP == 3
LOOP_DEFAULT == 10

\* const { maxIterations = 10 } = requestData; Math.min(maxIterations, 3)
PassedMaxIterations(requested) ==
    LET m == IF requested.present THEN requested.value ELSE REQUEST_DEFAULT
    IN IF m < AGENT_CAP THEN m ELSE AGENT_CAP

\* this.maxIterations = options.maxIterations || 10
LoopMaxIterations(passed) == IF passed = 0 THEN LOOP_DEFAULT ELSE passed

InitLoop ==
    /\ endpoint = "agentRequest"
    /\ pc = "r_loop"
    /\ \E requested \in RequestedValues :
          loop = LoopStart(requested, LoopMaxIterations(PassedMaxIterations(requested)))
    /\ IdleButLoop
    /\ ChatIdle
    /\ AgentIdle

\* One pass of runLoop's while: processIteration may complete the task.
LoopIterates ==
    /\ endpoint = "agentRequest"
    /\ pc = "r_loop"
    /\ AgentLoopGuard(loop.isComplete, loop.iteration, loop.maxIterations)
    /\ \E complete \in BOOLEAN :
          loop' = [loop EXCEPT !.iteration = @ + 1, !.isComplete = complete]
    /\ UNCHANGED <<endpoint, pc, chatVars, agentVars, notLoop>>

\* The while ends: runLoop returns.
LoopReturns ==
    /\ endpoint = "agentRequest"
    /\ pc = "r_loop"
    /\ ~AgentLoopGuard(loop.isComplete, loop.iteration, loop.maxIterations)
    /\ pc' = "r_done"
    /\ UNCHANGED <<endpoint, chatVars, agentVars, auxVars>>

NextLoop == LoopIterates \/ LoopReturns

SpecLoop == InitLoop /\ [][NextLoop]_vars

-----------------------------------------------------------------------------
(***************************************************************************)
(* The non-streaming handlers: handleClaudeRequest, handleGroqRequest and  *)
(* handleGeminiRequest, and the provider calls (fetch) each makes.         *)
(***************************************************************************)
MaxProviderCalls == 12

HandlerProviders == {"claude", "groq", "gemini"}

\* let maxIterations = 10 of the Claude and the Groq handler.
CLAUDE_MAX_ITERATIONS == 10
GROQ_MAX_ITERATIONS == 10

\* The handlers whose loop counts maxIterations down; the Gemini handler has
\* no such variable (0 stands for none).
InitialBudget(provider) ==
    IF provider = "claude" THEN CLAUDE_MAX_ITERATIONS
    ELSE IF provider = "groq" THEN GROQ_MAX_ITERATIONS
    ELSE 0

\* What a provider call comes back with: a failed HTTP status, a body of the
\* wrong shape, a reply asking for tools, or a final text.
Replies == {"not_ok", "invalid", "tool_use", "text"}

InitHandler ==
    /\ endpoint = "handler"
    /\ \E provider \in HandlerProviders :
          /\ handler = HandlerStart(provider, InitialBudget(provider))
          /\ pc = IF provider = "gemini" THEN "h_first" ELSE "h_while"
    /\ IdleButHandler
    /\ ChatIdle
    /\ AgentIdle

\* Claude, Groq: while (maxIterations > 0) { fetch ...
HandlerFetches ==
    /\ endpoint = "handler"
    /\ pc = "h_while"
    /\ handler.maxIterations > 0
    /\ \E reply \in Replies :
          handler' = [handler EXCEPT !.calls = @ + 1, !.reply = reply]
    /\ pc' = "h_reply"
    /\ UNCHANGED <<endpoint, chatVars, agentVars, notHandler>>

\* Claude, Groq: the rest of the loop body.  A failed or (Groq) malformed
\* reply throws, a reply with tool calls executes them and counts the budget
\* down, any other reply breaks out of the loop.
HandlerHandlesReply ==
    /\ endpoint = "handler"
    /\ pc = "h_reply"
    /\ IF handler.reply = "not_ok" \/ (handler.reply = "invalid" /\ handler.provider = "groq")
       THEN pc' = "h_thrown" /\ handler' = handler
       ELSE IF handler.reply = "tool_use"
       THEN pc' = "h_while" /\ handler' = [handler EXCEPT !.maxIterations = @ - 1]
       ELSE pc' = "h_done" /\ handler' = handler
    /\ UNCHANGED <<endpoint, chatVars, agentVars, notHandler>>

\* Claude, Groq: maxIterations reached 0, the loop ends without a final text.
HandlerBudgetSpent ==
    /\ endpoint = "handler"
    /\ pc = "h_while"
    /\ handler.maxIterations = 0
    /\ pc' = "h_done"
    /\ UNCHANGED <<endpoint, chatVars, agentVars, auxVars>>

\* Gemini: the fetch before the loop.
GeminiFirstFetch ==
    /\ endpoint = "handler"
    /\ pc = "h_first"
    /\ \E reply \in Replies :
          /\ handler' = [handler EXCEPT !.calls = @ + 1, !.reply = reply]
          /\ pc' = IF reply = "not_ok" THEN "h_thrown" ELSE "g_while"
    /\ UNCHANGED <<endpoint, chatVars, agentVars, notHandler>>

\* Gemini: while (data.candidates?.[0]?.content?.parts) with function calls
\* among the parts: they are executed and the next fetch is made.
GeminiFetchesAgain ==
    /\ endpoint = "handler"
    /\ pc = "g_while"
    /\ handler.reply = "tool_use"
    /\ handler.calls < MaxProviderCalls
    /\ \E reply \in Replies :
          /\ handler' = [handler EXCEPT !.calls = @ + 1, !.reply = reply]
          /\ pc' = IF reply = "not_ok" THEN "h_thrown" ELSE "g_while"
    /\ UNCHANGED <<endpoint, chatVars, agentVars, notHandler>>

\* Gemini: no parts, or parts without a function call: the loop ends.
GeminiLoopEnds ==
    /\ endpoint = "handler"
    /\ pc = "g_while"
    /\ handler.reply \in {"invalid", "text"}
    /\ pc' = "h_done"
    /\ UNCHANGED <<endpoint, chatVars, agentVars, auxVars>>

NextHandler ==
    \/ HandlerFetches
    \/ HandlerHandlesReply
    \/ HandlerBudgetSpent
    \/ GeminiFirstFetch
    \/ GeminiFetchesAgain
    \/ GeminiLoopEnds

SpecHandler == InitHandler /\ [][NextHandler]_vars

-----------------------------------------------------------------------------
(***************************************************************************)
(* batch_tool on the clock.  Every timer of one call is armed in the same  *)
(* synchronous run of execute, so a timer's delay is its deadline.  Time   *)
(* advances in steps of TICK, and never past a timer that is due.          *)
(***************************************************************************)
\* The shortest delay; every other delay is a multiple of it.
TICK == KB_TIMEOUT

\* Names the invocations of a timed batch carry: one per delay, and one
\* that is stopped before it runs.
TimedNames ==
    {"batch_tool", "execute_sql", "lookup_knowledge_base", "execute_user_approved_sql"}

TimedBatches == UNION { [1..n -> TimedNames] : n \in 1..MaxInv }

\* The invocations left awaiting their tool when execute reaches its await.
Running(names) == { i \in 1..Len(names) : ImmediateError(names[i]) = "" }

\* An invocation's withTimeout is due.
Due(b, i) == i \in b.pending /\ InvocationTimeout(b.names[i]) <= b.now

InitBatch ==
    /\ endpoint = "batch"
    /\ pc = "t_run"
    /\ \E names \in TimedBatches : batch = BatchStart(names, Running(names))
    /\ IdleButBatch
    /\ ChatIdle
    /\ AgentIdle

\* A tool returns (or throws) before its invocation's timer is due.
ToolSettles ==
    /\ endpoint = "batch"
    /\ pc = "t_run"
    /\ batch.state = "pending"
    /\ \E i \in batch.pending :
          /\ ~Due(batch, i)
          /\ batch' = [batch EXCEPT !.pending = @ \ {i}]
    /\ UNCHANGED <<endpoint, pc, chatVars, agentVars, notBatch>>

\* An invocation's withTimeout rejects: the catch turns it into an entry
\* with timeout: true.
InvocationTimerFires ==
    /\ endpoint = "batch"
    /\ pc = "t_run"
    /\ batch.state = "pending"
    /\ \E i \in batch.pending :
          /\ Due(batch, i)
          /\ batch' = [batch EXCEPT !.pending = @ \ {i}, !.timedOut = @ \cup {i}]
    /\ UNCHANGED <<endpoint, pc, chatVars, agentVars, notBatch>>

\* Promise.all resolves in the microtasks that follow the last settlement,
\* before any other timer callback runs.
PromiseAllResolves ==
    /\ endpoint = "batch"
    /\ pc = "t_run"
    /\ batch.state = "pending"
    /\ batch.pending = {}
    /\ batch' = [batch EXCEPT !.state = "resolved"]
    /\ UNCHANGED <<endpoint, pc, chatVars, agentVars, notBatch>>

\* Promise.all has settled its last entry and its resolution is still in
\* the microtask queue.
ResolutionQueued(b) == b.state = "pending" /\ b.pending = {}

\* The callback of the batch's withTimeout runs (the timer is never
\* cleared).  Timers fire in the order of their deadlines, after the
\* microtasks; the rejection only counts while the race is still pending,
\* and then execute returns batch_results: [].
BatchTimerFires ==
    /\ endpoint = "batch"
    /\ pc = "t_run"
    /\ batch.batchTimer = "armed"
    /\ BATCH_TIMEOUT <= batch.now
    /\ ~ResolutionQueued(batch)
    /\ \A i \in batch.pending :
          Due(batch, i) => BATCH_TIMEOUT < InvocationTimeout(batch.names[i])
    /\ batch' = [batch EXCEPT !.batchTimer = "fired",
                              !.state = IF @ = "pending" THEN "timeout" ELSE @]
    /\ pc' = "t_done"
    /\ UNCHANGED <<endpoint, chatVars, agentVars, notBatch>>

\* Time passes while no timer is due and no microtask is queued.
TimePasses ==
    /\ endpoint = "batch"
    /\ pc = "t_run"
    /\ batch.now < BATCH_TIMEOUT
    /\ ~ResolutionQueued(batch)
    /\ \A i \in batch.pending : ~Due(batch, i)
    /\ batch' = [batch EXCEPT !.now = @ + TICK]
    /\ UNCHANGED <<endpoint, pc, chatVars, agentVars, notBatch>>

NextBatch ==
    \/ ToolSettles
    \/ InvocationTimerFires
    \/ PromiseAllResolves
    \/ BatchTimerFires
    \/ TimePasses

SpecBatch == InitBatch /\ [][NextBatch]_vars

-----------------------------------------------------------------------------
(***************************************************************************)
(* handleChat's handling of one parsed payload, per selectedProvider: which*)
(* adapter opens the stream and which branch reads its payloads.           *)
(***************************************************************************)
MaxDeltas == 3

\* The provider values that pass request setup and open a stream.
SetupProviders == {"anthropic", "claude", "groq", "openai", "gemini"}

\* The payloads of a stream that matter here: a text delta, or the start of
\* a tool call.
DeltaKinds == {"text", "tool_use"}
DeltaStreams == UNION { [1..n -> DeltaKinds] : n \in 0..MaxDeltas }

\* The adapter handleChat calls, which fixes the format of the payloads:
\* gemini is rerouted to streamAnthropicResponse.
Adapter(provider) ==
    IF provider \in {"anthropic", "claude", "gemini"} THEN "anthropic" ELSE "openai"

\* The branch of the payload handling taken for selectedProvider; "none"
\* when neither if matches.
PayloadBranch(provider) ==
    IF provider \in {"anthropic", "claude"} THEN "anthropic"
    ELSE IF provider \in {"groq", "openai"} THEN "openai"
    ELSE "none"

InitForward ==
    /\ endpoint = "forward"
    /\ pc = "f_read"
    /\ \E provider \in SetupProviders, stream \in DeltaStreams :
          forward = ForwardStart(provider, stream)
    /\ IdleButForward
    /\ ChatIdle
    /\ AgentIdle

\* One payload of the stream is parsed and handled.  In its branch a text
\* delta is enqueued as a text event and a tool call is put in toolCalls;
\* without a branch nothing is done with the payload.
HandlePayload ==
    /\ endpoint = "forward"
    /\ pc = "f_read"
    /\ forward.handled < Len(forward.stream)
    /\ LET kind == forward.stream[forward.handled + 1]
           taken == PayloadBranch(forward.selectedProvider) # "none"
       IN  forward' = [forward EXCEPT
              !.handled = @ + 1,
              !.textEvents = IF taken /\ kind = "text" THEN @ + 1 ELSE @,
              !.toolCalls = IF taken /\ kind = "tool_use" THEN @ + 1 ELSE @]
    /\ UNCHANGED <<endpoint, pc, chatVars, agentVars, notForward>>

\* reader.read() reports done.
ForwardStreamEnds ==
    /\ endpoint = "forward"
    /\ pc = "f_read"
    /\ forward.handled = Len(forward.stream)
    /\ pc' = "f_done"
    /\ UNCHANGED <<endpoint, chatVars, agentVars, auxVars>>

NextForward == HandlePayload \/ ForwardStreamEnds

SpecForward == InitForward /\ [][NextForward]_vars

-----------------------------------------------------------------------------
(***************************************************************************)
(* The tool-result message of one turn: each stored result is looked up    *)
(* by its tool_call_id to find the name its section is labelled with.      *)
(***************************************************************************)
\* The id of a call as collected from the stream: the provider's id, or ''
\* when the OpenAI-format delta had none (toolCallDelta.id || '').
CallIds == {"", "call_1", "call_2"}

LabelledNames == {"execute_sql", "lookup_knowledge_base"}

LabelledTurns ==
    UNION { [1..n -> [id : CallIds, name : LabelledNames]] : n \in 1..MaxCalls }

\* validToolCallsForLoop.find(tc => tc.id === id)?.name || 'unknown'
RECURSIVE FindName(_, _, _)
FindName(calls, id, i) ==
    IF i > Len(calls) THEN "unknown"
    ELSE IF calls[i].id = id THEN calls[i].name
    ELSE FindName(calls, id, i + 1)

InitLabel ==
    /\ endpoint = "labels"
    /\ pc = "l_tools"
    /\ \E calls \in LabelledTurns : labels = LabelStart(calls)
    /\ IdleButLabel
    /\ ChatIdle
    /\ AgentIdle

\* One pass of the for..of: executedToolResults.push({tool_call_id:
\* toolCall.id, content}); by records the call the content came from.
StoreResult ==
    /\ endpoint = "labels"
    /\ pc = "l_tools"
    /\ Len(labels.executed) < Len(labels.calls)
    /\ LET i == Len(labels.executed) + 1
       IN  labels' = [labels EXCEPT !.executed =
                         Append(@, [tool_call_id |-> labels.calls[i].id, by |-> i])]
    /\ UNCHANGED <<endpoint, pc, chatVars, agentVars, notLabel>>

\* executedToolResults.map(...): one "## Tool Result: <name>" section per
\* stored result.
FormatSections ==
    /\ endpoint = "labels"
    /\ pc = "l_tools"
    /\ Len(labels.executed) = Len(labels.calls)
    /\ labels' = [labels EXCEPT !.sections =
                    [k \in 1..Len(labels.executed) |->
                        [toolName |-> FindName(labels.calls,
                                               labels.executed[k].tool_call_id, 1),
                         by |-> labels.executed[k].by]]]
    /\ pc' = "l_pushed"
    /\ UNCHANGED <<endpoint, chatVars, agentVars, notLabel>>

NextLabel == StoreResult \/ FormatSections

SpecLabel == InitLabel /\ [][NextLabel]_vars

-----------------------------------------------------------------------------
(***************************************************************************)
(* Conversation setup of two concurrent /chat requests:                    *)
(* createOrGetConversation (SELECT, then INSERT) and saveMessage, each     *)
(* statement one step; conversations.id is the table's PRIMARY KEY.        *)
(***************************************************************************)
Requests == 1..2

\* The conversationId the requests that carry one share.
SharedId == "c"

\* conversationId || crypto.randomUUID()
NewId(given, r) ==
    IF given THEN SharedId ELSE IF r = 1 THEN "uuid_1" ELSE "uuid_2"

InitConv ==
    /\ endpoint = "conv"
    /\ pc = "c_setup"
    /\ \E given \in [Requests -> BOOLEAN], rows \in {{}, {SharedId}} :
          conv = ConvStart(given, rows)
    /\ IdleButConv
    /\ ChatIdle
    /\ AgentIdle

\* if (conversationId) { SELECT ... first(); if (existing) return }
CheckExisting(r) ==
    /\ endpoint = "conv"
    /\ conv.at[r] = "c_check"
    /\ conv' = [conv EXCEPT !.at[r] =
                   IF conv.given[r] /\ SharedId \in conv.rows
                   THEN "c_save" ELSE "c_insert"]
    /\ UNCHANGED <<endpoint, pc, chatVars, agentVars, notConv>>

\* INSERT INTO conversations: rejected when a row with that id exists; the
\* rejection leaves handleChat through its outer catch.
InsertConversation(r) ==
    /\ endpoint = "conv"
    /\ conv.at[r] = "c_insert"
    /\ LET newId == NewId(conv.given[r], r)
       IN  conv' = IF newId \in conv.rows
                   THEN [conv EXCEPT !.at[r] = "c_failed"]
                   ELSE [conv EXCEPT !.at[r] = "c_save", !.rows = @ \cup {newId}]
    /\ UNCHANGED <<endpoint, pc, chatVars, agentVars, notConv>>

\* saveMessage(env, finalConversationId, 'user', userContent)
SaveUserMessage(r) ==
    /\ endpoint = "conv"
    /\ conv.at[r] = "c_save"
    /\ conv' = [conv EXCEPT !.at[r] = "c_done", !.messages[r] = @ + 1]
    /\ UNCHANGED <<endpoint, pc, chatVars, agentVars, notConv>>

NextConv ==
    \E r \in Requests :
        \/ CheckExisting(r)
        \/ InsertConversation(r)
        \/ SaveUserMessage(r)

SpecConv == InitConv /\ [][NextConv]_vars

-----------------------------------------------------------------------------
Init == InitChat \/ InitAgent

Next == NextChat \/ NextAgent

Spec == Init /\ [][Next]_vars

-----------------------------------------------------------------------------
(* Properties                                                              *)

Chat == endpoint = "chat"
Agent == endpoint = "agent"

TurnNames == NamesOf(ValidToolCalls(toolCalls))

TerminalTools == {"complete_task", "prepare_sql_for_user"}
ControlTools == {"continue_agent", "complete_task", "prepare_sql_for_user"}

IsPrefix(s, t) == Len(s) <= Len(t) /\ \A i \in 1..Len(s) : s[i] = t[i]

\* The tool-result message pushed in iteration it, if the history has one.
HasToolResults(h, it) ==
    \E i \in 1..Len(h) : h[i].kind = "tool_results" /\ h[i].iter = it

\* C1: once the start() callback of a /chat stream has returned, the client
\* has received a `done` frame and the stream is closed.
C1_DoneAndClosed ==
    (Chat /\ pc = "returned") => (doneSent >= 1 /\ closed)

\* C2: once the start() callback has returned, saveMessage was called with
\* role assistant exactly once.
C2_SavedExactlyOnce ==
    (Chat /\ pc = "returned") => saveCalls = 1

C4_NoToolsOneIteration ==
    [][ /\ (Chat /\ pc = "decide" /\ currentIteration = 1 /\ TurnNames = {})
           => (pc' = "returned" /\ currentIteration' = 1 /\ providerCalls' = 1)
        /\ (Chat /\ pc = "returned") => pc' = "returned" ]_vars

C4_Witness ==
    /\ Chat /\ pc = "returned" /\ enableLoop /\ maxIterations >= 2
    /\ TurnNames = {} /\ doneSent = 1
    /\ currentIteration = 1 /\ providerCalls = 1

\* A turn that calls an analysis tool and no terminal tool.
AnalysisTurn(names) ==
    names \cap AnalysisTools # {} /\ names \cap TerminalTools = {}

\* C5: with the loop enabled and every provider stream read to its end, a
\* request can only end on a turn that calls an analysis tool and no terminal
\* tool when that turn is iteration maxIterations; a model that answers every
\* turn that way therefore gets exactly maxIterations provider calls.
C5_CapReached ==
    (Chat /\ pc = "returned" /\ enableLoop /\ maxIterations >= 1
          /\ errorSent = 0 /\ AnalysisTurn(TurnNames))
    => (currentIteration = maxIterations /\ providerCalls = maxIterations)

C5_Witness ==
    /\ Chat /\ pc = "returned" /\ enableLoop /\ maxIterations >= 2
    /\ errorSent = 0 /\ AnalysisTurn(TurnNames)
    /\ "continue_agent" \notin TurnNames
    /\ currentIteration = maxIterations
    /\ \A it \in 1..currentIteration : HasToolResults(currentMessages, it)

\* C6: when the execution stage of a turn is over, it has recorded one
\* outcome per call, in call order (chat loop and AgentLoop.executeToolCalls).
C6_OneOutcomePerCall ==
    /\ (Chat /\ pc = "decide") =>
         LET valid == ValidToolCalls(toolCalls)
         IN  /\ Len(executedToolResults) = Len(valid)
             /\ \A i \in 1..Len(valid) :
                   executedToolResults[i].tool_call_id = valid[i].id
    /\ (Agent /\ pc = "a_push") =>
         /\ Len(results) = Len(aiToolCalls)
         /\ \A i \in 1..Len(aiToolCalls) : results[i].toolName = aiToolCalls[i]

\* In a history every tool-result message directly follows the assistant
\* message pushed by the same iteration.
ResultsFollowAssistant(h) ==
    \A i \in 1..Len(h) :
       h[i].kind = "tool_results" =>
          /\ i > 1
          /\ h[i-1].role = "assistant"
          /\ h[i-1].iter = h[i].iter

\* C7: the histories only grow at the end, and every tool-result message
\* directly follows the assistant message of its iteration.
C7_HistoryAppendOnly ==
    /\ [](ResultsFollowAssistant(currentMessages) /\ ResultsFollowAssistant(conversation))
    /\ [][ /\ IsPrefix(currentMessages, currentMessages')
           /\ IsPrefix(conversation, conversation') ]_vars

C7_Witness ==
    /\ Chat /\ Len(currentMessages) >= 5
    /\ HasToolResults(currentMessages, 1)
    /\ HasToolResults(currentMessages, 2)

\* C8: a turn that calls complete_task or prepare_sql_for_user is the last
\* turn of the request.
C8_TerminalToolStops ==
    [][ (Chat /\ pc = "decide" /\ TurnNames \cap TerminalTools # {})
        => pc' = "returned" ]_vars

\* The loop goes on to another iteration.
GoesOn == pc' = "loop" /\ LoopGuard(shouldContinueLoop', currentIteration', maxIterations')

\* C9 as stated: after a turn with tool calls and no control tool, the loop
\* goes on iff the iteration is below the cap and an analysis tool was called.
C9_ContinueIffAnalysis ==
    [][ (Chat /\ pc = "decide" /\ TurnNames # {} /\ TurnNames \cap ControlTools = {})
        => (GoesOn <=> (currentIteration < maxIterations
                        /\ TurnNames \cap AnalysisTools # {})) ]_vars

\* C9 amended: the same, for a request with enableLoop true.
C9_ContinueIffAnalysisWhenEnabled ==
    [][ (Chat /\ pc = "decide" /\ enableLoop
              /\ TurnNames # {} /\ TurnNames \cap ControlTools = {})
        => (GoesOn <=> (currentIteration < maxIterations
                        /\ TurnNames \cap AnalysisTools # {})) ]_vars

C9_Witness ==
    /\ Chat /\ pc = "loop" /\ enableLoop /\ currentIteration = 1
    /\ TurnNames # {} /\ TurnNames \cap ControlTools = {}
    /\ "execute_sql" \in TurnNames /\ "evaluate_expression" \in TurnNames
    /\ shouldContinueLoop /\ HasToolResults(currentMessages, 1)

\* C10: a first turn that called only evaluate_expression (loop enabled,
\* maxIterations >= 2) gets its tool-result message appended to the history
\* and the loop goes on to a second iteration; the provider call of that
\* iteration is given a message list that holds the tool-result message.
C10_SecondCallSeesResult ==
    [][ /\ (Chat /\ pc = "decide" /\ enableLoop /\ maxIterations >= 2
                 /\ currentIteration = 1 /\ TurnNames = {"evaluate_expression"})
           => (HasToolResults(currentMessages', 1) /\ GoesOn)
        /\ (Chat /\ pc = "call" /\ currentIteration = 2
                 /\ HasToolResults(currentMessages, 1))
           => HasToolResults(lastRequest', 1) ]_vars

\* C11: the assistant message handed to saveMessage holds the text of every
\* iteration of the request, and the tool-call record holds the calls of
\* every iteration that made some.
C11_SavesWholeRequest ==
    (Chat /\ pc = "returned" /\ saveCalls = 1) =>
        /\ \A it \in 1..currentIteration :
              \E i \in 1..Len(savedResponse) : savedResponse[i] = it
        /\ \A it \in 1..currentIteration :
              HasToolResults(currentMessages, it) =>
                 \E k \in 1..Len(savedToolCalls) : savedToolCalls[k].iter = it

\* C12: when the execution stage of a turn is over, every call has an
\* outcome, and every call that failed (unknown tool, unparsable arguments,
\* error or timeout inside the tool) was reported as a tool_error frame.
C12_FailuresAreToolErrors ==
    (Chat /\ pc = "decide") =>
        /\ Len(executedToolResults) = Len(ValidToolCalls(toolCalls))
        /\ Len(toolEvents) = Len(executedToolResults)
        /\ \A i \in 1..Len(executedToolResults) :
              executedToolResults[i].status \in {"error", "thrown"}
                 => toolEvents[i] = "tool_error"

\* C13: a call to a registered tool whose argument buffer does not parse is
\* still executed (its outcome comes from the tool, not from the catch).
C13_BadArgsStillExecuted ==
    (Chat /\ pc = "decide") =>
        LET valid == ValidToolCalls(toolCalls)
        IN  \A i \in 1..Len(valid) :
               (i <= Len(executedToolResults)
                   /\ ~Parses(valid[i].input)
                   /\ valid[i].name \in RegisteredTools)
               => executedToolResults[i].status # "thrown"

Reading == endpoint = "reader"

\* The payloads of a stream, in order.
PayloadsOf(stream) == SelectSeq(stream, IsPayload)

\* What the reader makes of the whole stream delivered as one chunk.
OneChunk == ProcessChunk(reader.provider,
                         ReaderStart(reader.provider, reader.stream,
                                     reader.frags),
                         reader.stream)

\* The input buffer a call has when its whole argument text is one fragment.
OneFragment ==
    Handle(reader.provider,
           Handle(reader.provider, ReaderStart("", <<>>, <<>>),
                  ToolStart("execute_sql")),
           ArgsDelta(Flatten(reader.frags))).toolCalls[1].input

\* C14: when every delta of the stream has been handled, the arguments the
\* call is executed with are those of the same text sent as one fragment.
C14_FragmentsRoundTrip ==
    (Reading /\ pc = "r_parsed"
        /\ reader.events = PayloadsOf(reader.stream)) =>
        reader.toolInput = << FinalArgs(OneFragment) >>

\* C15: once the stream is closed, the text events and tool-call updates
\* made are those made when the stream arrives as a single chunk.
C15_ChunkingInvariant ==
    (Reading /\ pc = "r_closed") =>
        /\ reader.events = OneChunk.events
        /\ reader.toolCalls = OneChunk.toolCalls

\* C16: after a data: [DONE] line has been read, no event is produced.
C16_NothingAfterDone ==
    (Reading /\ reader.doneAt # -1) => Len(reader.events) = reader.doneAt

ToolRun == endpoint = "tools"

BatchDone == ToolRun /\ pc = "x_done" /\ run.tool = "batch_tool"

\* C17: a call that waits for a backend which never answers has a timer
\* armed that will end it.
C17_SilentBackendTimesOut ==
    (ToolRun /\ pc = "x_await" /\ run.backend = "silent") => run.armed > 0

\* C18: the batch result has one entry per invocation, in list order; an
\* invocation naming batch_tool or an unknown tool has an error entry at
\* its position, every other invocation has run; total_invocations is the
\* number of invocations.
C18_BatchEntriesInOrder ==
    BatchDone =>
        LET invs == run.invocations
            res == run.result.batch_results
        IN  /\ Len(res) = Len(invs)
            /\ run.result.total_invocations = Len(invs)
            /\ \A i \in 1..Len(invs) :
                  /\ res[i].tool_name = invs[i].name
                  /\ res[i].arguments = invs[i].arguments
                  /\ IF invs[i].name = "batch_tool" \/ invs[i].name \notin DirectTools
                     THEN res[i].failed
                          /\ res[i].error \in {"recursive", "not_found"}
                     ELSE res[i].error \in {"", "error", "inner_timeout",
                                            "timed_out"}

\* A batch with a nested batch_tool and two tools that ran and finished
\* in the reverse of their list order.
C18_Witness ==
    /\ BatchDone
    /\ \E i, j, k \in 1..Len(run.invocations) :
         /\ run.invocations[i].name = "batch_tool"
         /\ ImmediateError(run.invocations[j].name) = ""
         /\ ImmediateError(run.invocations[k].name) = ""
         /\ j < k
         /\ \E a, b \in 1..Len(run.order) :
               a < b /\ run.order[a] = k /\ run.order[b] = j

\* C19: a timed-out invocation is a failed entry; the batch is a success
\* when some invocation succeeded and a failure when every one failed.
C19_BatchFailsWhenAllFail ==
    BatchDone =>
        LET res == run.result.batch_results
            bad(i) == res[i].error # ""
        IN  /\ \A i \in 1..Len(res) :
                  res[i].error \in {"inner_timeout", "timed_out"}
                     => res[i].failed
            /\ (\E i \in 1..Len(res) : ~bad(i)) => run.result.success
            /\ (\A i \in 1..Len(res) : bad(i)) => ~run.result.success

\* C20: truncating a truncated result returns it unchanged.
C20_TruncationIdempotent ==
    (endpoint = "trunc" /\ pc = "t_twice") => trunc.twice = trunc.once

\* C21: a result with more than 10 rows entering the chat history is cut
\* to its first 5 rows, one marker row and its last 5 rows, is flagged
\* truncated and has a contextSummary stating the original row count.
C21_RowsCutAndFlagged ==
    (endpoint = "trunc" /\ pc = "t_once" /\ trunc.path = "chat"
        /\ trunc.result.type = "default"
        /\ Len(trunc.result.data) > FORMAT_ROW_LIMIT) =>
        LET in == trunc.result.data
            out == trunc.once
        IN  /\ Len(out.data) = 11
            /\ FirstN(out.data, 5) = FirstN(in, 5)
            /\ out.data[6].k = "note"
            /\ LastN(out.data, 5) = LastN(in, 5)
            /\ out.truncated
            /\ out.contextSummary = Len(in)

Admitted == endpoint = "admit" /\ pc = "q_done"

NoInput == ~admit.prompt /\ admit.messages = "absent"

KeyMissing ==
    LET key == RequiredKey(SelectedProvider(admit.provider))
    IN  key # "" /\ key \notin admit.keys

DoneFrame(sc, it, max) == [type |-> "done"]

\* C24: the frame that ends a run names a reason, and the reason of a run
\* stopped by the iteration cap differs from that of a run the model ended.
C24_ReasonGiven ==
    (Chat /\ pc = "returned" /\ doneSent = 1) =>
        LET frame == DoneFrame(shouldContinueLoop, currentIteration,
                               maxIterations)
        IN  /\ "reason" \in DOMAIN frame
            /\ (shouldContinueLoop /\ currentIteration >= maxIterations)
                  => frame.reason # DoneFrame(FALSE, currentIteration,
                                              maxIterations).reason

\* C23: no write to the stream is attempted after the client has gone.
C23_NoWriteAfterClose ==
    endpoint = "sse" => sse.afterClose = 0

\* C25: when the turn is over every call the registry knows has been
\* executed once, and the result in the history is the one that was
\* streamed.
C25_ExecutedOnce ==
    (endpoint = "stage" /\ pc = "g_done") =>
        /\ \A i \in 1..Len(stage.toolCalls) :
              StageRuns(stage.toolCalls[i]) => stage.executions[i] = 1
        /\ stage.enableLoop => stage.toolResults = stage.streamed

\* C26: only tools of the allowed subset are ever executed.
C26_OnlyAllowedExecuted ==
    endpoint = "registry" => registry.executed \subseteq registry.allowedTools

\* C27: whatever execute_sql sends to the database consists of SELECT
\* statements only.
C27_OnlySelectSent ==
    (endpoint = "sql" /\ sql.via = "execute_sql") =>
        \A i \in 1..Len(sql.sent) : sql.sent[i] = "select"

\* C28: an UPDATE, INSERT or DELETE reaches the database only after the user
\* approved the query.
C28_ModifyingNeedsApproval ==
    (endpoint = "sql" /\ \E i \in 1..Len(sql.sent) : sql.sent[i] \in DataModifying) =>
        sql.approved

\* C29: a POST /agent request never runs more than 3 iterations.
C29_AtMostThreeIterations ==
    endpoint = "agentRequest" => loop.iteration <= AGENT_CAP

\* C30: a non-streaming handler makes at most 10 provider calls for one
\* request.
C30_AtMostTenCalls ==
    endpoint = "handler" => handler.calls <= 10

\* C31: after an iteration of runLoop whose turn had no tool calls, no
\* further model call is made.
C31_NoCallAfterEmptyTurn ==
    (endpoint = "agent" /\ pc = "a_callAI" /\ iteration > 1) =>
        Len(aiToolCalls) > 0

\* C32: the batch-level timeout never fires: every invocation settles by its
\* own shorter timeout, so no batch ends with the empty batch-timeout result.
C32_BatchTimerNeverFires ==
    endpoint = "batch" => batch.state # "timeout"

\* A batch resolved after one of its invocations was ended by its own timer.
C32_Witness ==
    /\ endpoint = "batch"
    /\ batch.state = "resolved"
    /\ batch.timedOut # {}
    /\ batch.now = SQL_TIMEOUT

\* C33: successful_invocations is the number of result entries that carry
\* no error.
C33_SuccessfulCountsErrorFree ==
    BatchDone =>
        run.result.successful_invocations =
            Cardinality({ i \in 1..Len(run.result.batch_results) :
                            run.result.batch_results[i].error = "" })

\* C34: when the stream has been read, every text delta in it has become a
\* text event and every tool call in it has been collected, for each of
\* the five providers.
C34_EveryDeltaHandled ==
    (endpoint = "forward" /\ pc = "f_done") =>
        /\ forward.textEvents =
              Cardinality({ i \in 1..Len(forward.stream) : forward.stream[i] = "text" })
        /\ forward.toolCalls =
              Cardinality({ i \in 1..Len(forward.stream) : forward.stream[i] = "tool_use" })

\* C35: a request that names a provider and no model has that provider's
\* configured default model passed to the adapter.
C35_ProviderDefaultModel ==
    (/\ endpoint = "admit"
     /\ admit.providerCalls = 1
     /\ admit.provider \in {"anthropic", "claude", "groq", "openai", "gemini"}
     /\ admit.model = "") =>
        admit.modelPassed = DEFAULT_MODELS(admit.provider)

\* C38: a request answered at setup with 400 or 401 has written nothing to
\* the store.
C38_RejectedLeavesStoreUnchanged ==
    (endpoint = "admit" /\ admit.status \in {400, 401}) => ~admit.userSaved

\* C36: every section of the tool-result message is labelled with the name
\* of the call that produced its result.
C36_SectionsNamedByTheirCall ==
    (endpoint = "labels" /\ pc = "l_pushed") =>
        \A k \in 1..Len(labels.sections) :
            labels.sections[k].toolName = labels.calls[labels.sections[k].by].name

\* C37: two concurrent requests with the same conversationId, not yet in
\* the store, both get through conversation setup and share one row.
C37_BothSetUpOneRow ==
    (endpoint = "conv" /\ conv.given[1] /\ conv.given[2] /\ ~conv.preexisting) =>
        /\ \A r \in Requests : conv.at[r] # "c_failed"
        /\ (\A r \in Requests : conv.at[r] = "c_done") => conv.rows = {SharedId}

====
